---- MODULE Spec2Model ----
(***************************************************************************)
(* A model of rpkg-rs: the partition layering engine                       *)
(* (resource/resource_partition.rs), the archive reader as far as the      *)
(* layering engine uses it (resource/resource_package.rs), the manifest    *)
(* parsers (resource/pdefs), the mount graph and its queries               *)
(* (resource/partition_manager.rs), the archive builder                    *)
(* (resource/package_builder.rs) and the byte-level archive reader         *)
(* (ResourcePackage::from_memory, read_resource).                          *)
(***************************************************************************)
EXTENDS Integers, Sequences, FiniteSets, TLC

\* ---------------------------------------------------------------------
\* Bounds of the model
\* ---------------------------------------------------------------------

\* the greatest max_patch_level a PartitionInfo of the layering runs carries
MaxLevel == 2

\* the greatest number of patch files in the directory of one partition
MaxPatchFiles == 2

\* the greatest number of partition lines of a manifest
MaxLines == 3

\* the deepest recursion of resolve_resource_from and the most turns of the loop
\* of root_partition that the runs follow
MaxWalk == 4

\* the runtime resource ids of the runs
RRIDs == {1, 2}

\* ---------------------------------------------------------------------
\* Option and Result
\* ---------------------------------------------------------------------

None == [some |-> FALSE]

Some(x) == [some |-> TRUE, val |-> x]

Ok(x) == [ok |-> TRUE, val |-> x]

Err(e) == [ok |-> FALSE, err |-> e]

\* ---------------------------------------------------------------------
\* PatchId and its order
\* ---------------------------------------------------------------------

Base == [kind |-> "Base", n |-> 0]

Patch(n) == [kind |-> "Patch", n |-> n]

\* impl Ord for PatchId, with the two patch levels compared the wrong way round
PatchIdCmpReversed(a, b) ==
    CASE a.kind = "Base" /\ b.kind = "Base" -> "Equal"
      [] a.kind = "Base" /\ b.kind = "Patch" -> "Less"
      [] a.kind = "Patch" /\ b.kind = "Base" -> "Greater"
      [] OTHER -> IF b.n < a.n THEN "Less"
                  ELSE IF a.n = b.n THEN "Equal" ELSE "Greater"

\* impl Ord for PatchId
PatchIdCmp(a, b) ==
    CASE a.kind = "Base" /\ b.kind = "Base" -> "Equal"
      [] a.kind = "Base" /\ b.kind = "Patch" -> "Less"
      [] a.kind = "Patch" /\ b.kind = "Base" -> "Greater"
      [] OTHER -> IF a.n < b.n THEN "Less"
                  ELSE IF a.n = b.n THEN "Equal" ELSE "Greater"

RECURSIVE SortedInsert(_, _)
\* one insertion of the sort: x goes before the first element greater than it
SortedInsert(x, s) ==
    IF s = <<>> THEN <<x>>
    ELSE IF PatchIdCmp(x, Head(s)) = "Less" THEN <<x>> \o s
    ELSE <<Head(s)>> \o SortedInsert(x, Tail(s))

RECURSIVE SortPatchIds(_)
\* Vec<PatchId>::sort, by the Ord of PatchId
SortPatchIds(s) ==
    IF s = <<>> THEN <<>>
    ELSE SortedInsert(s[Len(s)], SortPatchIds(SubSeq(s, 1, Len(s) - 1)))

\* ---------------------------------------------------------------------
\* Partition ids and file names
\* ---------------------------------------------------------------------

\* PartitionId { part_type, index }; lang is the code of a language variant
PartitionId(part_type, lang, index) ==
    [part_type |-> part_type, lang |-> lang, index |-> index]

\* impl Display for PartitionId: <<prefix, index, suffix>> stands for
\* "chunk{index}", "dlc{index}", "chunk{index}lang{lang}", "dlc{index}lang{lang}"
PartitionIdToString(id) ==
    CASE id.part_type = "Standard" -> <<"chunk", id.index, <<>>>>
      [] id.part_type = "Addon" -> <<"chunk", id.index, <<>>>>
      [] id.part_type = "Dlc" -> <<"dlc", id.index, <<>>>>
      [] id.part_type = "LanguageStandard" -> <<"chunk", id.index, <<"lang", id.lang>>>>
      [] id.part_type = "LanguageDlc" -> <<"dlc", id.index, <<"lang", id.lang>>>>

RECURSIVE FormatUsize(_)
\* the decimal digits of n, as format!("{}", n) writes them
FormatUsize(n) ==
    IF n < 10 THEN <<n>> ELSE FormatUsize(n \div 10) \o <<n % 10>>

RECURSIVE ParseUsize(_)
\* str::parse::<usize> of a string of decimal digits (leading zeros are read)
ParseUsize(digits) ==
    IF digits = <<>> THEN 0
    ELSE 10 * ParseUsize(SubSeq(digits, 1, Len(digits) - 1)) + digits[Len(digits)]

\* a file name "{stem}.rpkg" (patch = None) or "{stem}patch{digits}.rpkg"
FileName(stem, patch) == [stem |-> stem, patch |-> patch]

\* PartitionId::to_filename / PartitionInfo::filename
filename(info, patch_index) ==
    IF patch_index.kind = "Base"
    THEN FileName(PartitionIdToString(info.id), None)
    ELSE FileName(PartitionIdToString(info.id), Some(FormatUsize(patch_index.n)))

\* the capture of ^(?:{id}patch([0-9]+).rpkg)$ on a file name
PatchCapture(info, file_name) ==
    IF /\ file_name.stem = PartitionIdToString(info.id)
       /\ file_name.patch.some
       /\ Len(file_name.patch.val) >= 1
    THEN Some(file_name.patch.val)
    ELSE None

\* PartitionInfo
PartitionInfo(name, parent, id, patch_level) ==
    [name |-> name, parent |-> parent, id |-> id, patch_level |-> patch_level]

\* ---------------------------------------------------------------------
\* Archive files and ResourcePackage::from_file
\* ---------------------------------------------------------------------

\* what an archive file holds: the unneeded block and the offset-table rows,
\* or bytes the reader rejects
Archive(unneeded, rows) == [corrupt |-> FALSE, unneeded |-> unneeded, rows |-> rows]

Corrupt == [corrupt |-> TRUE, unneeded |-> <<>>, rows |-> {}]

\* the language code contains the word "patch": of the codes of the runs, the
\* code "patch" does
LangContainsPatch(lang) == lang = "patch"

\* is_patch of from_file: the file name contains "patch", as the patch suffix or
\* within the language code of the partition id
IsPatchFileName(file_name) ==
    \/ file_name.patch.some
    \/ (file_name.stem[3] # <<>> /\ LangContainsPatch(file_name.stem[3][2]))

\* ResourcePackage::from_file
from_file(dir, package_path) ==
    IF package_path \notin DOMAIN dir THEN Err("IoError")
    ELSE IF dir[package_path].corrupt THEN Err("ParsingError")
    ELSE Ok([source |-> package_path,
             unneeded_resources |->
                 IF IsPatchFileName(package_path) /\ Len(dir[package_path].unneeded) > 0
                 THEN Some(dir[package_path].unneeded) ELSE None,
             resources |-> [r \in dir[package_path].rows |->
                               [runtime_resource_id |-> r, package |-> package_path]]])

\* ResourcePackage::unneeded_resource_ids
unneeded_resource_ids(rpkg) ==
    IF rpkg.unneeded_resources.some THEN rpkg.unneeded_resources.val ELSE <<>>

\* ResourcePackage::has_unneeded_resource
has_unneeded_resource(rpkg, rrid) ==
    /\ rpkg.unneeded_resources.some
    /\ \E i \in 1..Len(rpkg.unneeded_resources.val) : rpkg.unneeded_resources.val[i] = rrid

\* ResourcePackage::read_resource, as far as the lookup goes: the payload is
\* named by the row it is read from
package_read_resource(rpkg, rrid) ==
    IF rrid \notin DOMAIN rpkg.resources THEN Err("ResourceNotFound")
    ELSE Ok(rpkg.resources[rrid])

\* ---------------------------------------------------------------------
\* HashMap operations
\* ---------------------------------------------------------------------

EmptyMap == [k \in {} |-> k]

MapInsert(m, k, v) == [x \in DOMAIN m \cup {k} |-> IF x = k THEN v ELSE m[x]]

MapRemove(m, k) == [x \in DOMAIN m \ {k} |-> m[x]]

\* ---------------------------------------------------------------------
\* ResourcePartition
\* ---------------------------------------------------------------------

\* ResourcePartition::new
NewPartition(info) == [info |-> info, packages |-> EmptyMap, resources |-> EmptyMap]

RECURSIVE CollectPatchIndices(_, _)
\* the loop of read_patch_indices over the listed file names
CollectPatchIndices(info, listing) ==
    IF listing = <<>> THEN <<>>
    ELSE LET rest == CollectPatchIndices(info, SubSeq(listing, 1, Len(listing) - 1))
             cap == PatchCapture(info, listing[Len(listing)])
         IN IF cap.some /\ ParseUsize(cap.val) <= info.patch_level
            THEN Append(rest, Patch(ParseUsize(cap.val)))
            ELSE rest

RECURSIVE CollectPatchIndicesNoLimit(_, _)
\* the loop of read_patch_indices without the max_patch_level test
CollectPatchIndicesNoLimit(info, listing) ==
    IF listing = <<>> THEN <<>>
    ELSE LET rest == CollectPatchIndicesNoLimit(info, SubSeq(listing, 1, Len(listing) - 1))
             cap == PatchCapture(info, listing[Len(listing)])
         IN IF cap.some
            THEN Append(rest, Patch(ParseUsize(cap.val)))
            ELSE rest

\* read_patch_indices without the max_patch_level test
read_patch_indices_no_limit(info, dir, listing) ==
    IF filename(info, Base) \notin DOMAIN dir THEN Err("BasePackageNotFound")
    ELSE Ok(SortPatchIds(CollectPatchIndicesNoLimit(info, listing)))

\* read_patch_indices without the final sort
read_patch_indices_unsorted(info, dir, listing) ==
    IF filename(info, Base) \notin DOMAIN dir THEN Err("BasePackageNotFound")
    ELSE Ok(CollectPatchIndices(info, listing))

\* ResourcePartition::read_patch_indices; listing is what read_file_names returned
read_patch_indices(info, dir, listing) ==
    IF filename(info, Base) \notin DOMAIN dir THEN Err("BasePackageNotFound")
    ELSE Ok(SortPatchIds(CollectPatchIndices(info, listing)))

RECURSIVE RemoveDeletions(_, _)
\* the deletion loop of mount_package
RemoveDeletions(resources, deletions) ==
    IF deletions = <<>> THEN resources
    ELSE LET deletion == Head(deletions)
         IN RemoveDeletions(IF deletion \in DOMAIN resources
                            THEN MapRemove(resources, deletion) ELSE resources,
                            Tail(deletions))

\* the insertion loop of mount_package that keeps an earlier owner
InsertResourcesKeepOld(resources, rrids, patch_index) ==
    [r \in DOMAIN resources \cup rrids |->
        IF r \in DOMAIN resources THEN resources[r] ELSE patch_index]

\* the insertion loop of mount_package: every key of rpkg.resources is mapped to
\* patch_index, an earlier mapping being overwritten
InsertResources(resources, rrids, patch_index) ==
    [r \in DOMAIN resources \cup rrids |->
        IF r \in rrids THEN patch_index ELSE resources[r]]

\* mount_package with the deletions applied after the insertions
mount_package_delete_last(partition, dir, package_path, patch_index) ==
    LET parsed == from_file(dir, package_path)
    IN IF ~parsed.ok THEN Err(<<"ReadResourcePackageError", parsed.err>>)
       ELSE LET rpkg == parsed.val
            IN Ok([partition EXCEPT
                     !.resources = RemoveDeletions(
                         InsertResources(partition.resources, DOMAIN rpkg.resources,
                                         patch_index),
                         unneeded_resource_ids(rpkg)),
                     !.packages = MapInsert(partition.packages, patch_index, rpkg)])

\* mount_package that forgets to keep the parsed package
mount_package_no_package(partition, dir, package_path, patch_index) ==
    LET parsed == from_file(dir, package_path)
    IN IF ~parsed.ok THEN Err(<<"ReadResourcePackageError", parsed.err>>)
       ELSE LET rpkg == parsed.val
            IN Ok([partition EXCEPT
                     !.resources = InsertResources(
                         RemoveDeletions(partition.resources, unneeded_resource_ids(rpkg)),
                         DOMAIN rpkg.resources, patch_index)])

\* ResourcePartition::mount_package
mount_package(partition, dir, package_path, patch_index) ==
    LET parsed == from_file(dir, package_path)
    IN IF ~parsed.ok THEN Err(<<"ReadResourcePackageError", parsed.err>>)
       ELSE LET rpkg == parsed.val
            IN Ok([partition EXCEPT
                     !.resources = InsertResources(
                         RemoveDeletions(partition.resources, unneeded_resource_ids(rpkg)),
                         DOMAIN rpkg.resources, patch_index),
                     !.packages = MapInsert(partition.packages, patch_index, rpkg)])

\* ResourcePartition::contains
contains(partition, rrid) == rrid \in DOMAIN partition.resources

\* ResourcePartition::get_resource_info
get_resource_info(partition, rrid) ==
    IF rrid \notin DOMAIN partition.resources THEN Err("ResourceNotAvailable")
    ELSE IF partition.resources[rrid] \notin DOMAIN partition.packages
    THEN Err("NotMounted")
    ELSE IF rrid \notin DOMAIN partition.packages[partition.resources[rrid]].resources
    THEN Err("ResourceNotAvailable")
    ELSE Ok(partition.packages[partition.resources[rrid]].resources[rrid])

\* ResourcePartition::read_resource
read_resource(partition, rrid) ==
    IF rrid \notin DOMAIN partition.resources THEN Err("ResourceNotAvailable")
    ELSE IF partition.resources[rrid] \notin DOMAIN partition.packages
    THEN Err("NotMounted")
    ELSE LET data == package_read_resource(
                         partition.packages[partition.resources[rrid]], rrid)
         IN IF data.ok THEN data ELSE Err(<<"ReadResourcePackageError", data.err>>)

RECURSIVE FilterIds(_, _)
\* iter().filter(..).map(|(id, _)| *id).collect(): the ids of the iteration that
\* pass the filter, in the order of the iteration
FilterIds(order, kept) ==
    IF order = <<>> THEN <<>>
    ELSE (IF Head(order) \in kept THEN <<Head(order)>> ELSE <<>>)
             \o FilterIds(Tail(order), kept)

\* ResourcePartition::resource_patch_indices; order is the order in which the
\* HashMap packages is iterated
resource_patch_indices(partition, rrid, order) ==
    FilterIds(order, {id \in DOMAIN partition.packages :
                         rrid \in DOMAIN partition.packages[id].resources})

\* resource_removal_indices that leaves the base package out
resource_removal_indices_patches_only(partition, rrid, order) ==
    FilterIds(order, {id \in DOMAIN partition.packages :
                         /\ id.kind = "Patch"
                         /\ has_unneeded_resource(partition.packages[id], rrid)})

\* ResourcePartition::resource_removal_indices
resource_removal_indices(partition, rrid, order) ==
    FilterIds(order, {id \in DOMAIN partition.packages :
                         has_unneeded_resource(partition.packages[id], rrid)})

\* PartitionState; install_progress is the fraction num / den of the f32 division
PartitionState(installing, mounted, num, den) ==
    [installing |-> installing, mounted |-> mounted,
     install_progress |-> [num |-> num, den |-> den]]

RECURSIVE MountPatches(_, _, _, _, _)
\* lines 159-171 of mount_resource_packages_in_partition_with_callback: the loop
\* over patch_indices from position index on, and the final report
MountPatches(partition, dir, patch_indices, index, calls) ==
    IF index > Len(patch_indices)
    THEN [result |-> "Ok", partition |-> partition,
          calls |-> Append(calls, PartitionState(FALSE, TRUE, 1, 1))]
    ELSE LET patch_id == patch_indices[index]
             r == mount_package(partition, dir, filename(partition.info, patch_id),
                                patch_id)
         IN IF ~r.ok
            THEN [result |-> "Err", partition |-> partition, calls |-> calls]
            ELSE MountPatches(r.val, dir, patch_indices, index + 1,
                     Append(calls, PartitionState(TRUE, FALSE, index - 1,
                                                  Len(patch_indices))))

\* ResourcePartition::mount_resource_packages_in_partition_with_callback as one
\* call: what it returns, the partition it leaves and the states the callback got
mount_resource_packages_in_partition_with_callback(partition, dir, listing) ==
    LET patch_idx_result == read_patch_indices(partition.info, dir, listing)
    IN IF ~patch_idx_result.ok
       THEN [result |-> "Ok", partition |-> partition,
             calls |-> <<PartitionState(FALSE, FALSE, 0, 1)>>]
       ELSE LET r == mount_package(partition, dir, filename(partition.info, Base), Base)
            IN IF ~r.ok
               THEN [result |-> "Err", partition |-> partition, calls |-> <<>>]
               ELSE MountPatches(r.val, dir, patch_idx_result.val, 1, <<>>)

\* ---------------------------------------------------------------------
\* The manifest parsers
\* ---------------------------------------------------------------------
\* A manifest is the sequence of its lines that open partitions: a line of the
\* newest dialect is [kind |-> "partition", name, parent, type, patchlevel], a
\* line of the two older ones [kind |-> "partition", word, patchlevel] or
\* [kind |-> "langdlc", lang]; [kind |-> "root"] is a resource-root line.

\* find_parent_id: the id of the first partition of that name
find_parent_id(parsed, parent_name) ==
    IF \E i \in DOMAIN parsed : parsed[i].name = Some(parent_name)
    THEN Some(parsed[CHOOSE i \in DOMAIN parsed :
                        /\ parsed[i].name = Some(parent_name)
                        /\ \A j \in DOMAIN parsed :
                              parsed[j].name = Some(parent_name) => i <= j].id)
    ELSE None

RECURSIVE HM3Parse(_)
\* HM3Parser::parse
HM3Parse(lines) ==
    IF lines = <<>> THEN Ok(<<>>)
    ELSE LET before == HM3Parse(SubSeq(lines, 1, Len(lines) - 1))
             line == lines[Len(lines)]
         IN IF ~before.ok THEN before
            ELSE IF line.kind = "partition"
            THEN Ok(Append(before.val,
                     PartitionInfo(Some(line.name),
                                   find_parent_id(before.val, line.parent),
                                   PartitionId(CASE line.type = "standard" -> "Standard"
                                                 [] line.type = "addon" -> "Addon"
                                                 [] OTHER -> "Standard",
                                               "", Len(before.val)),
                                   line.patchlevel)))
            ELSE IF line.kind = "root" /\ before.val = <<>>
            THEN Err("UnexpectedFormat")
            ELSE before

\* the number of partitions of a list that have the part_type
CountOfType(parsed, part_type) ==
    Cardinality({i \in DOMAIN parsed : parsed[i].id.part_type = part_type
                                        /\ parsed[i].id.lang = ""})

\* parent of a partition line of the two older dialects: the first partition's id
FirstId(parsed) == IF parsed = <<>> THEN None ELSE Some(parsed[1].id)

RECURSIVE HM2Parse(_)
\* HM2Parser::parse; the manifests have no comment line that names a partition,
\* so try_read_partition_name gives None
HM2Parse(lines) ==
    IF lines = <<>> THEN Ok(<<>>)
    ELSE LET before == HM2Parse(SubSeq(lines, 1, Len(lines) - 1))
             line == lines[Len(lines)]
         IN IF line.kind = "partition"
            THEN LET part_type == IF line.word = "chunk" THEN "Standard" ELSE "Dlc"
                 IN Ok(Append(before.val,
                          PartitionInfo(None, FirstId(before.val),
                                        PartitionId(part_type, "",
                                                    CountOfType(before.val, part_type)),
                                        line.patchlevel)))
            ELSE before

\* the language variant the #langdlc line makes of one partition
LangPartition(p, language_code) ==
    PartitionInfo(None, Some(p.id),
                  PartitionId(CASE p.id.part_type = "Standard" -> "LanguageStandard"
                                [] p.id.part_type = "Dlc" -> "LanguageDlc"
                                [] OTHER -> "LanguageDlc",
                              language_code, p.id.index),
                  0)

RECURSIVE H2016Parse(_)
\* H2016Parser::parse; try_read_partition_name gives None as in HM2Parse
H2016Parse(lines) ==
    IF lines = <<>> THEN Ok(<<>>)
    ELSE LET before == H2016Parse(SubSeq(lines, 1, Len(lines) - 1))
             line == lines[Len(lines)]
         IN IF line.kind = "partition"
            THEN LET part_type == CASE line.word = "dlc" -> "Dlc"
                                    [] line.word = "chunk" -> "Standard"
                                    [] OTHER -> "Standard"
                 IN Ok(Append(before.val,
                          PartitionInfo(None, FirstId(before.val),
                                        PartitionId(part_type, "",
                                                    CountOfType(before.val, part_type)),
                                        line.patchlevel)))
            ELSE IF line.kind = "langdlc"
            THEN Ok(before.val \o
                    [i \in DOMAIN before.val |-> LangPartition(before.val[i], line.lang)])
            ELSE before

\* PackageDefinitionSource::read
read(source) ==
    CASE source.kind = "Custom" -> Ok(source.data)
      [] source.kind = "HM3" -> HM3Parse(source.data)
      [] source.kind = "HM2" -> HM2Parse(source.data)
      [] source.kind = "HM2016" -> H2016Parse(source.data)

\* ---------------------------------------------------------------------
\* PartitionManager
\* ---------------------------------------------------------------------

\* PartitionManagerError::PartitionError(id, _)
PartitionError(id) == [kind |-> "PartitionError", id |-> id]

\* PartitionManagerError::PartitionNotFound(id.to_string())
PartitionNotFound(id) == [kind |-> "PartitionNotFound", id |-> PartitionIdToString(id)]

\* PartitionManagerError::ResourceNotFound(rrid.to_string())
ResourceNotFound(rrid) == [kind |-> "ResourceNotFound", rrid |-> rrid]

NoRootPartition == [kind |-> "NoRootPartition"]

\* try_read_partition that hands the partition on whether or not the last state
\* reported it mounted
try_read_partition_keep_unmounted(dir, partition_info, listing) ==
    LET m == mount_resource_packages_in_partition_with_callback(
                 NewPartition(partition_info), dir, listing)
    IN [result |-> IF m.result = "Err" THEN Err(PartitionError(partition_info.id))
                   ELSE Ok(Some(m.partition)),
        calls |-> m.calls]

\* PartitionManager::try_read_partition: what it returns and the states its
\* callback received
try_read_partition(dir, partition_info, listing) ==
    LET m == mount_resource_packages_in_partition_with_callback(
                 NewPartition(partition_info), dir, listing)
        state_result == IF m.calls = <<>> THEN PartitionState(FALSE, FALSE, 0, 1)
                        ELSE m.calls[Len(m.calls)]
    IN [result |-> IF m.result = "Err" THEN Err(PartitionError(partition_info.id))
                   ELSE IF state_result.mounted THEN Ok(Some(m.partition))
                   ELSE Ok(None),
        calls |-> m.calls]

\* the states of one partition's mount, as mount_partitions hands them on: with
\* the position of the partition in partition_infos, counted from 1
Indexed(i, calls) == [k \in 1..Len(calls) |-> [index |-> Some(i), state |-> calls[k]]]

RECURSIVE ReadPartitionsSkipFailed(_, _, _, _, _, _)
\* the collect of mount_partitions, were a partition that fails left out and
\* the others kept
ReadPartitionsSkipFailed(infos, i, dir, listing, acc, calls) ==
    IF i > Len(infos) THEN [result |-> Ok(acc), calls |-> calls]
    ELSE LET r == try_read_partition(dir, infos[i], listing)
         IN ReadPartitionsSkipFailed(infos, i + 1, dir, listing,
                IF r.result.ok /\ r.result.val.some
                THEN Append(acc, r.result.val.val) ELSE acc,
                calls \o Indexed(i, r.calls))

RECURSIVE ReadPartitions(_, _, _, _, _, _)
\* lines 168-182 of mount_partitions: the partitions are read in the order of
\* partition_infos and collected into a Result, which is the first error if
\* there is one; the partitions read with no base archive are dropped
ReadPartitions(infos, i, dir, listing, acc, calls) ==
    IF i > Len(infos) THEN [result |-> Ok(acc), calls |-> calls]
    ELSE LET r == try_read_partition(dir, infos[i], listing)
         IN IF ~r.result.ok
            THEN [result |-> r.result, calls |-> calls \o Indexed(i, r.calls)]
            ELSE ReadPartitions(infos, i + 1, dir, listing,
                     IF r.result.val.some THEN Append(acc, r.result.val.val) ELSE acc,
                     calls \o Indexed(i, r.calls))

\* PartitionManager::find_partition: the first partition of the list with the id
find_partition(partitions, partition_id) ==
    IF \E i \in DOMAIN partitions : partitions[i].info.id = partition_id
    THEN Some(partitions[CHOOSE i \in DOMAIN partitions :
                            /\ partitions[i].info.id = partition_id
                            /\ \A j \in DOMAIN partitions :
                                  partitions[j].info.id = partition_id => i <= j])
    ELSE None

\* find_partition that returns the last partition of the list with the id
find_partition_last(partitions, partition_id) ==
    IF \E i \in DOMAIN partitions : partitions[i].info.id = partition_id
    THEN Some(partitions[CHOOSE i \in DOMAIN partitions :
                            /\ partitions[i].info.id = partition_id
                            /\ \A j \in DOMAIN partitions :
                                  partitions[j].info.id = partition_id => j <= i])
    ELSE None

\* what one activation of resolve_resource_from does: it returns a result, or
\* it calls itself with another partition id
Return(r) == [returns |-> TRUE, val |-> r]

Recurse(partition_id) == [returns |-> FALSE, partition_id |-> partition_id]

\* an activation that asks the parent before it looks into its own partition
resolve_resource_from_parent_first(partitions, partition_id, resource_id) ==
    LET found == find_partition(partitions, partition_id)
    IN IF ~found.some THEN Return(Err(PartitionNotFound(partition_id)))
       ELSE IF found.val.info.parent.some
       THEN Recurse(found.val.info.parent.val)
       ELSE IF contains(found.val, resource_id)
       THEN LET info == get_resource_info(found.val, resource_id)
            IN IF info.ok THEN Return(Ok(<<info.val, partition_id>>))
               ELSE Return(Err(ResourceNotFound(resource_id)))
       ELSE Return(Err(ResourceNotFound(resource_id)))

\* an activation that reports a partition that is not mounted as a resource
\* that is not found
resolve_resource_from_hides_missing(partitions, partition_id, resource_id) ==
    LET found == find_partition(partitions, partition_id)
    IN IF ~found.some THEN Return(Err(ResourceNotFound(resource_id)))
       ELSE IF contains(found.val, resource_id)
       THEN LET info == get_resource_info(found.val, resource_id)
            IN IF info.ok THEN Return(Ok(<<info.val, partition_id>>))
               ELSE Return(Err(ResourceNotFound(resource_id)))
       ELSE IF found.val.info.parent.some
       THEN Recurse(found.val.info.parent.val)
       ELSE Return(Err(ResourceNotFound(resource_id)))

\* PartitionManager::resolve_resource_from, one activation (lines 332-354)
resolve_resource_from(partitions, partition_id, resource_id) ==
    LET found == find_partition(partitions, partition_id)
    IN IF ~found.some THEN Return(Err(PartitionNotFound(partition_id)))
       ELSE IF contains(found.val, resource_id)
       THEN LET info == get_resource_info(found.val, resource_id)
            IN IF info.ok THEN Return(Ok(<<info.val, partition_id>>))
               ELSE Return(Err(ResourceNotFound(resource_id)))
       ELSE IF found.val.info.parent.some
       THEN Recurse(found.val.info.parent.val)
       ELSE Return(Err(ResourceNotFound(resource_id)))

\* PartitionManager::root_partition, one turn of its loop (lines 246-254) with
\* the PartitionInfo the loop is at: it returns, or it goes on with another
root_partition(partitions, partition_info) ==
    IF partition_info.parent.some
    THEN LET part == find_partition(partitions, partition_info.parent.val)
         IN IF part.some THEN [returns |-> FALSE, partition_info |-> part.val.info]
            ELSE Return(Err(PartitionNotFound(partition_info.parent.val)))
    ELSE Return(Ok(partition_info.id))

\* PartitionManager::read_resource_from: the first partition with the id reads
\* the resource, and its error is wrapped
read_resource_from(partitions, partition_id, rrid) ==
    LET found == find_partition(partitions, partition_id)
    IN IF ~found.some THEN Err(PartitionNotFound(partition_id))
       ELSE LET data == read_resource(found.val, rrid)
            IN IF data.ok THEN data ELSE Err(PartitionError(partition_id))

\* PartitionManager::partitions_with_resource: the ids of the partitions that
\* contain the rrid, in the order of the list
partitions_with_resource(partitions, rrid) ==
    LET ids == [k \in DOMAIN partitions |-> partitions[k].info.id]
    IN FilterIds(ids, {partitions[k].info.id : k \in {j \in DOMAIN partitions :
                                                        contains(partitions[j], rrid)}})

RECURSIVE ResolveWalk(_, _, _, _)
\* resolve_resource_from with its recursive calls, followed for at most fuel
\* activations
ResolveWalk(partitions, partition_id, resource_id, fuel) ==
    LET r == resolve_resource_from(partitions, partition_id, resource_id)
    IN IF r.returns THEN r.val
       ELSE IF fuel = 0 THEN Err([kind |-> "StackOverflow"])
       ELSE ResolveWalk(partitions, r.partition_id, resource_id, fuel - 1)

\* ---------------------------------------------------------------------
\* Payload bytes: the scramble key and LZ4
\* ---------------------------------------------------------------------

RECURSIVE Xor(_, _)
\* a ^ b on u8
Xor(a, b) ==
    IF a = 0 THEN b
    ELSE IF b = 0 THEN a
    ELSE 2 * Xor(a \div 2, b \div 2) + ((a + b) % 2)

\* str_xor: 0xdc, 0x45, 0xa6, 0x9c, 0xd3, 0x72, 0x4c, 0xab
str_xor == <<220, 69, 166, 156, 211, 114, 76, 171>>

\* XorWriter::write, and the descrambling loop of read_resource: byte i of the
\* buffer, from 0, is xored with str_xor[i % 8]
XorBytes(buf) ==
    [i \in 1..Len(buf) |-> Xor(buf[i], str_xor[((i - 1) % Len(str_xor)) + 1])]

\* lz4::compress and lz4_hc::compress on an input too short to hold a match
\* (under 13 bytes): one sequence, the token with the literal length in its high
\* nibble, then the literals
Lz4Compress(data) == <<16 * Len(data)>> \o data

\* lz4::decompress into a buffer of data_size zeros: the block must be one
\* sequence of literals that fits the buffer
Lz4Decompress(buffer, data_size) ==
    IF buffer = <<>> THEN Err("Lz4DecompressionError")
    ELSE LET literals == buffer[1] \div 16
         IN IF buffer[1] % 16 # 0 \/ Len(buffer) # 1 + literals \/ literals > data_size
            THEN Err("Lz4DecompressionError")
            ELSE Ok([i \in 1..data_size |-> IF i <= literals THEN buffer[1 + i] ELSE 0])

\* ---------------------------------------------------------------------
\* Reference flags
\* ---------------------------------------------------------------------

\* ResourceReferenceFlags::V1 with the bits the builder's callers set
FlagsV1(runtime_acquired, weak_reference, install_dependency) ==
    [variant |-> "V1", runtime_acquired |-> runtime_acquired,
     weak_reference |-> weak_reference, install_dependency |-> install_dependency]

\* ResourceReferenceFlags::V2
FlagsV2(language_code, runtime_acquired, reference_type) ==
    [variant |-> "V2", language_code |-> language_code,
     runtime_acquired |-> runtime_acquired, reference_type |-> reference_type]

\* ResourceReferenceFlags::reference_type
reference_type(flags) ==
    IF flags.variant = "V2" THEN flags.reference_type
    ELSE IF flags.install_dependency THEN "INSTALL"
    ELSE IF flags.weak_reference THEN "WEAK"
    ELSE "NORMAL"

\* ResourceReferenceFlags::to_v1
to_v1(flags) ==
    IF flags.variant = "V1" THEN flags
    ELSE FlagsV1(flags.runtime_acquired, flags.reference_type = "WEAK",
                 flags.reference_type = "INSTALL")

\* ResourceReferenceFlags::to_v2; 31 is the language code 0x1F
to_v2(flags) ==
    IF flags.variant = "V2" THEN flags
    ELSE FlagsV2(31, flags.runtime_acquired, reference_type(flags))

\* ---------------------------------------------------------------------
\* IndexMap and IndexSet: a sequence of entries in insertion order
\* ---------------------------------------------------------------------

\* IndexMap::insert that keeps the entry of an old key
IndexMapInsertKeepOld(map, key, value) ==
    IF \E i \in DOMAIN map : map[i].key = key THEN map
    ELSE Append(map, [key |-> key, value |-> value])

\* IndexMap::insert: a new key goes to the end; an old key keeps its position
\* and takes the new value
IndexMapInsert(map, key, value) ==
    IF \E i \in DOMAIN map : map[i].key = key
    THEN [i \in DOMAIN map |->
             IF map[i].key = key THEN [key |-> key, value |-> value] ELSE map[i]]
    ELSE Append(map, [key |-> key, value |-> value])

\* IndexMap::get
IndexMapGet(map, key) ==
    IF \E i \in DOMAIN map : map[i].key = key
    THEN Some(map[CHOOSE i \in DOMAIN map : map[i].key = key].value)
    ELSE None

\* the keys of an IndexMap in iteration order
IndexMapKeys(map) == [i \in DOMAIN map |-> map[i].key]

\* IndexSet::insert
IndexSetInsert(set, x) ==
    IF \E i \in DOMAIN set : set[i] = x THEN set ELSE Append(set, x)

\* ---------------------------------------------------------------------
\* PackageResourceBuilder
\* ---------------------------------------------------------------------

\* str.chars().rev(): a resource type is the sequence of its four characters
ReverseChars(s) == [i \in DOMAIN s |-> s[Len(s) + 1 - i]]

\* PackageResourceBuilder::resource_type_to_bytes
resource_type_to_bytes(resource_type) ==
    IF Len(resource_type) = 4 THEN Ok(ReverseChars(resource_type))
    ELSE Err("InvalidResourceType")

\* PackageResourceBuilder::from_memory; "u32::MAX" stands for the number
from_memory_resource(rrid, resource_type, data, compression_level, should_scramble) ==
    [rrid |-> rrid,
     resource_type |-> resource_type_to_bytes(resource_type).val,
     system_memory_requirement |-> Len(data),
     video_memory_requirement |-> "u32::MAX",
     references |-> <<>>,
     blob |-> [kind |-> "Memory", data |-> data,
               compression_level |-> compression_level,
               should_scramble |-> should_scramble]]

\* PackageResourceBuilder::from_compressed_memory
from_compressed_memory(rrid, resource_type, data, decompressed_size, is_scrambled) ==
    [rrid |-> rrid,
     resource_type |-> resource_type_to_bytes(resource_type).val,
     system_memory_requirement |-> IF decompressed_size.some THEN decompressed_size.val
                                   ELSE Len(data),
     video_memory_requirement |-> "u32::MAX",
     references |-> <<>>,
     blob |-> [kind |-> "CompressedMemory", data |-> data,
               decompressed_size |-> decompressed_size,
               is_scrambled |-> is_scrambled]]

\* PackageResourceBuilder::with_reference
with_reference(resource, rrid, flags) ==
    [resource EXCEPT !.references = Append(@, <<rrid, flags>>)]

RECURSIVE with_references(_, _)
\* with_reference called for each reference of a list, in order
with_references(resource, refs) ==
    IF refs = <<>> THEN resource
    ELSE with_references(with_reference(resource, refs[1][1], refs[1][2]), Tail(refs))

\* PackageResourceBuilder::with_memory_requirements
with_memory_requirements(resource, system_memory_requirement, video_memory_requirement) ==
    [resource EXCEPT !.system_memory_requirement = system_memory_requirement,
                     !.video_memory_requirement = video_memory_requirement]

\* PackageResourceBlob::size
BlobSize(blob) ==
    IF blob.kind = "Memory" THEN Len(blob.data)
    ELSE IF blob.decompressed_size.some THEN blob.decompressed_size.val
    ELSE Len(blob.data)

\* ---------------------------------------------------------------------
\* PackageBuilder
\* ---------------------------------------------------------------------

\* is_base that holds of no patch id
is_base_never(patch_id) == FALSE

\* PatchId::is_base, PatchId::is_patch
is_base(patch_id) == patch_id.kind = "Base"

is_patch(patch_id) == patch_id.kind = "Patch"

\* PackageBuilder::new_with_patch_id
new_with_patch_id(partition_id, patch_id) ==
    [partition_id |-> partition_id, patch_id |-> patch_id,
     use_legacy_references |-> FALSE, resources |-> <<>>, unneeded_resources |-> <<>>]

\* PackageBuilder::new
PackageBuilderNew(chunk_id, chunk_type) ==
    new_with_patch_id(PartitionId(chunk_type, "", chunk_id), Base)

\* PackageBuilder::with_patch_id
with_patch_id(builder, patch_id) == [builder EXCEPT !.patch_id = patch_id]

\* PackageBuilder::use_legacy_references
use_legacy_references(builder) == [builder EXCEPT !.use_legacy_references = TRUE]

\* with_resource that pushes the resource without looking for its rrid
with_resource_push(builder, resource) ==
    [builder EXCEPT !.resources = Append(@, [key |-> resource.rrid, value |-> resource])]

\* PackageBuilder::with_resource
with_resource(builder, resource) ==
    [builder EXCEPT !.resources = IndexMapInsert(@, resource.rrid, resource)]

\* PackageBuilder::with_unneeded_resource
with_unneeded_resource(builder, rrid) ==
    [builder EXCEPT !.unneeded_resources = IndexSetInsert(@, rrid)]

RECURSIVE SumSeq(_)
\* the sum of a sequence of numbers
SumSeq(s) == IF s = <<>> THEN 0 ELSE s[1] + SumSeq(Tail(s))

RECURSIVE Concat(_)
\* the concatenation of a sequence of byte strings
Concat(ss) == IF ss = <<>> THEN <<>> ELSE ss[1] \o Concat(Tail(ss))

\* the size in bytes of what is written before the offset table: the magic, the
\* PackageMetadata of a v2 archive (u32, u8, u8, u8, 2 bytes), the PackageHeader
\* (3 x u32), and for a patch the unneeded count (u32) and ids (u64 each)
HeaderSize(version, patch, unneeded_count) ==
    4 + (IF version = "RPKGv2" THEN 9 ELSE 0) + 12
      + (IF patch THEN 4 + 8 * unneeded_count ELSE 0)

\* the size of a reference chunk: ResourceReferenceCountAndFlags (u32), then a
\* u64 and a u8 for each reference
ReferenceTableSize(references) ==
    IF references = <<>> THEN 0 ELSE 4 + 9 * Len(references)

\* the payload loop of build_internal that scrambles the data before it
\* compresses it
StoredBlobScrambleFirst(blob) ==
    IF blob.kind = "Memory"
    THEN LET scrambled == IF blob.should_scramble THEN XorBytes(blob.data) ELSE blob.data
             packed == IF blob.compression_level.some THEN Lz4Compress(scrambled)
                       ELSE scrambled
         IN [bytes |-> packed,
             compressed_size |-> IF blob.compression_level.some THEN Some(Len(packed))
                                 ELSE None,
             is_scrambled |-> blob.should_scramble]
    ELSE [bytes |-> blob.data,
          compressed_size |-> IF blob.decompressed_size.some THEN Some(Len(blob.data))
                              ELSE None,
          is_scrambled |-> blob.is_scrambled]

\* the payload loop of build_internal for one blob (lines 855-983): the bytes it
\* writes, and the compressed_size and is_scrambled it patches into the offset
\* entry. A Memory blob is compressed if a level is given, and the bytes then go
\* through the XorWriter if it is to be scrambled; a CompressedMemory blob is
\* written as it is.
StoredBlob(blob) ==
    IF blob.kind = "Memory"
    THEN LET packed == IF blob.compression_level.some THEN Lz4Compress(blob.data)
                       ELSE blob.data
         IN [bytes |-> IF blob.should_scramble THEN XorBytes(packed) ELSE packed,
             compressed_size |-> IF blob.compression_level.some THEN Some(Len(packed))
                                 ELSE None,
             is_scrambled |-> blob.should_scramble]
    ELSE [bytes |-> blob.data,
          compressed_size |-> IF blob.decompressed_size.some THEN Some(Len(blob.data))
                              ELSE None,
          is_scrambled |-> blob.is_scrambled]

\* write_metadata_table for one resource: the ResourceHeader and, if the resource
\* has references, the reference chunk: in legacy mode the ids and then the V1
\* flags, in new mode the V2 flags and then the ids
WriteResourceHeader(resource, legacy_references) ==
    [resource_type |-> resource.resource_type,
     references_chunk_size |-> ReferenceTableSize(resource.references),
     states_chunk_size |-> 0,
     data_size |-> BlobSize(resource.blob),
     system_memory_requirement |-> resource.system_memory_requirement,
     video_memory_requirement |-> resource.video_memory_requirement,
     references_chunk |->
         IF resource.references = <<>> THEN None
         ELSE LET rrids == [i \in DOMAIN resource.references |-> resource.references[i][1]]
                  flags == [i \in DOMAIN resource.references |->
                               IF legacy_references THEN to_v1(resource.references[i][2])
                               ELSE to_v2(resource.references[i][2])]
              IN Some([reference_count |-> Len(resource.references),
                       is_new_format |-> ~legacy_references,
                       always_true |-> TRUE,
                       first |-> IF legacy_references THEN rrids ELSE flags,
                       second |-> IF legacy_references THEN flags ELSE rrids])]

\* PackageBuilder::build_internal, the file it writes being the record of its
\* fields in file order: magic, metadata, header, the unneeded block (None when
\* it is not written), the offset table, the metadata table, and the payloads
\* from offset data_start on
build_internal(builder, version) ==
    IF builder.unneeded_resources # <<>> /\ is_base(builder.patch_id)
    THEN Err("UnneededResourcesNotSupported")
    ELSE LET n == Len(builder.resources)
             stored == [i \in 1..n |-> StoredBlob(builder.resources[i].value.blob)]
             headers == [i \in 1..n |->
                            WriteResourceHeader(builder.resources[i].value,
                                                builder.use_legacy_references)]
             offset_table_size == 20 * n
             metadata_table_size ==
                 SumSeq([i \in 1..n |-> 24 + headers[i].references_chunk_size])
             data_start ==
                 HeaderSize(version, is_patch(builder.patch_id),
                            Len(builder.unneeded_resources))
                     + offset_table_size + metadata_table_size
             lens == [i \in 1..n |-> Len(stored[i].bytes)]
         IN Ok([magic |-> IF version = "RPKGv1" THEN "GKPR" ELSE "2KPR",
                metadata |->
                    IF version = "RPKGv1" THEN None
                    ELSE Some([unknown |-> 1,
                               chunk_id |-> builder.partition_id.index % 256,
                               chunk_type |-> IF builder.partition_id.part_type = "Addon"
                                              THEN "Addon" ELSE "Standard",
                               patch_id |-> IF is_base(builder.patch_id) THEN 0
                                            ELSE builder.patch_id.n % 256,
                               language_tag |-> "xx"]),
                header |-> [file_count |-> n,
                            offset_table_size |-> offset_table_size,
                            metadata_table_size |-> metadata_table_size],
                unneeded |-> IF is_patch(builder.patch_id)
                             THEN Some(builder.unneeded_resources) ELSE None,
                offset_table |->
                    [i \in 1..n |->
                        [runtime_resource_id |-> builder.resources[i].key,
                         data_offset |-> data_start + SumSeq(SubSeq(lens, 1, i - 1)),
                         compressed_size |-> IF stored[i].compressed_size.some
                                             THEN stored[i].compressed_size.val ELSE 0,
                         is_scrambled |-> stored[i].is_scrambled]],
                metadata_table |-> headers,
                data_start |-> data_start,
                data |-> Concat([i \in 1..n |-> stored[i].bytes])])

\* PackageBuilder::build_in_memory
build_in_memory(builder, version) == build_internal(builder, version)

\* ---------------------------------------------------------------------
\* ResourcePackage: parsing an archive and reading a payload
\* ---------------------------------------------------------------------

\* read_references: the chunk says which layout it has
read_references(chunk) ==
    IF chunk.is_new_format
    THEN [i \in 1..chunk.reference_count |-> <<chunk.second[i], chunk.first[i]>>]
    ELSE [i \in 1..chunk.reference_count |-> <<chunk.first[i], chunk.second[i]>>]

\* ResourceHeader as it is read: the references are read if the chunk size is
\* not zero
ReadResourceHeader(written) ==
    [resource_type |-> written.resource_type,
     references_chunk_size |-> written.references_chunk_size,
     states_chunk_size |-> written.states_chunk_size,
     data_size |-> written.data_size,
     system_memory_requirement |-> written.system_memory_requirement,
     video_memory_requirement |-> written.video_memory_requirement,
     references |-> IF written.references_chunk_size > 0
                    THEN read_references(written.references_chunk.val) ELSE <<>>]

RECURSIVE InsertAll(_, _)
\* the last loop of resource_parser: every ResourceInfo is inserted under its rrid
InsertAll(map, resources) ==
    IF resources = <<>> THEN map
    ELSE InsertAll(IndexMapInsert(map, resources[1].entry.runtime_resource_id,
                                  resources[1]),
                   Tail(resources))

\* resource_parser: file_count offset entries, file_count headers, zipped and
\* inserted into the map; a file that ends before the tables do is an error
resource_parser(file, file_count) ==
    IF Len(file.offset_table) < file_count \/ Len(file.metadata_table) < file_count
    THEN Err("ParsingError")
    ELSE Ok(InsertAll(<<>>, [i \in 1..file_count |->
                                [entry |-> file.offset_table[i],
                                 header |-> ReadResourceHeader(file.metadata_table[i])]]))

\* ResourcePackage::from_memory. The metadata is read if the magic is 2KPR and
\* the unneeded block if is_patch_arg says so; the model reads files whose
\* layout agrees with both (a metadata block exactly under the magic 2KPR, an
\* unneeded block exactly when is_patch_arg holds).
from_memory(data, is_patch_arg) ==
    LET resources == resource_parser(data, data.header.file_count)
    IN IF ~resources.ok THEN Err("ParsingError")
       ELSE Ok([source |-> Some([kind |-> "Memory", data |-> data]),
                magic |-> data.magic,
                metadata |-> IF data.magic = "2KPR" THEN data.metadata ELSE None,
                header |-> data.header,
                unneeded_resources |->
                    IF is_patch_arg /\ Len(data.unneeded.val) # 0
                    THEN Some(data.unneeded.val) ELSE None,
                resources |-> resources.val])

\* ResourcePackage::version: a magic that is neither of the two panics
version(package) ==
    IF package.magic = "GKPR" THEN Ok("RPKGv1")
    ELSE IF package.magic = "2KPR" THEN Ok("RPKGv2")
    ELSE Err("panic")

\* PackageOffsetInfo::compressed_size
compressed_size(entry) ==
    IF entry.compressed_size = 0 THEN None ELSE Some(entry.compressed_size)

\* the bytes of a Memory source from start_offset up to end_offset
SourceSlice(source, start_offset, end_offset) ==
    SubSeq(source.data.data, start_offset - source.data.data_start + 1,
           end_offset - source.data.data_start)

\* read_resource that decompresses the stored bytes before it descrambles them
read_resource_decompress_first(package, rrid) ==
    LET found == IndexMapGet(package.resources, rrid)
    IN IF ~found.some THEN Err("ResourceNotFound")
       ELSE LET resource == found.val
                final_size == IF compressed_size(resource.entry).some
                              THEN compressed_size(resource.entry).val
                              ELSE resource.header.data_size
                buffer == SourceSlice(package.source.val, resource.entry.data_offset,
                                      resource.entry.data_offset + final_size)
                unpacked == IF compressed_size(resource.entry).some
                            THEN Lz4Decompress(buffer, resource.header.data_size)
                            ELSE Ok(buffer)
            IN IF ~unpacked.ok THEN unpacked
               ELSE IF resource.entry.is_scrambled THEN Ok(XorBytes(unpacked.val))
               ELSE unpacked

\* ResourcePackage::read_resource on a package parsed from memory: the stored
\* bytes are cut out of the source, descrambled if the entry says scrambled, and
\* then decompressed if it has a compressed size
ResourcePackage_read_resource(package, rrid) ==
    LET found == IndexMapGet(package.resources, rrid)
    IN IF ~found.some THEN Err("ResourceNotFound")
       ELSE LET resource == found.val
                final_size == IF compressed_size(resource.entry).some
                              THEN compressed_size(resource.entry).val
                              ELSE resource.header.data_size
                stored == SourceSlice(package.source.val, resource.entry.data_offset,
                                      resource.entry.data_offset + final_size)
                buffer == IF resource.entry.is_scrambled THEN XorBytes(stored)
                          ELSE stored
            IN IF compressed_size(resource.entry).some
               THEN Lz4Decompress(buffer, resource.header.data_size)
               ELSE Ok(buffer)

\* ResourceInfo::data_type: the type bytes back to front
data_type(resource) == ReverseChars(resource.header.resource_type)

RECURSIVE DuplicateResources(_, _, _)
\* the loop of from_resource_package over the resources of the package
DuplicateResources(builder, source, resources) ==
    IF resources = <<>> THEN builder
    ELSE LET resource == resources[1].value
             read_size == IF compressed_size(resource.entry).some
                          THEN compressed_size(resource.entry).val
                          ELSE resource.header.data_size
             duplicate ==
                 from_compressed_memory(
                     resources[1].key, data_type(resource),
                     SourceSlice(source, resource.entry.data_offset,
                                 resource.entry.data_offset + read_size),
                     IF compressed_size(resource.entry).some
                     THEN Some(resource.header.data_size) ELSE None,
                     resource.entry.is_scrambled)
         IN DuplicateResources(
                with_resource(builder,
                    with_references(
                        with_memory_requirements(duplicate,
                            resource.header.system_memory_requirement,
                            resource.header.video_memory_requirement),
                        resource.header.references)),
                source, Tail(resources))

RECURSIVE AddUnneeded(_, _)
\* with_unneeded_resource for each id of a list
AddUnneeded(builder, rrids) ==
    IF rrids = <<>> THEN builder
    ELSE AddUnneeded(with_unneeded_resource(builder, rrids[1]), Tail(rrids))

\* the byte-level ResourcePackage::unneeded_resource_ids
UnneededIds(package) ==
    IF package.unneeded_resources.some THEN package.unneeded_resources.val ELSE <<>>

\* PackageBuilder::from_resource_package: the partition id and the patch id come
\* from the metadata, or are chunk 0 and Base when the package has none; the
\* builder writes new references
from_resource_package(package) ==
    IF ~package.source.some THEN Err("NoSource")
    ELSE LET start ==
                 [partition_id |->
                      PartitionId(IF package.metadata.some THEN package.metadata.val.chunk_type
                                  ELSE "Standard", "",
                                  IF package.metadata.some THEN package.metadata.val.chunk_id
                                  ELSE 0),
                  patch_id |-> IF package.metadata.some /\ package.metadata.val.patch_id # 0
                               THEN Patch(package.metadata.val.patch_id) ELSE Base,
                  use_legacy_references |-> FALSE,
                  resources |-> <<>>, unneeded_resources |-> <<>>]
         IN Ok(AddUnneeded(DuplicateResources(start, package.source.val, package.resources),
                           UnneededIds(package)))

\* ---------------------------------------------------------------------
\* State
\* ---------------------------------------------------------------------

VARIABLES
    dir,            \* the runtime directory: file name -> what the file holds
    partition,      \* the ResourcePartition being mounted
    pc,             \* where mount_resource_packages_in_partition_with_callback is
    patch_indices,  \* its local patch_indices
    index,          \* the position of its loop in patch_indices, from 1
    state,          \* its local PartitionState
    calls,          \* the states the progress callback has received, in order
    result,         \* what the call returned: "none" while it runs
    merged          \* the PatchIds mount_package has merged, in order

VARIABLES
    partition_infos,  \* PartitionManager.partition_infos
    partitions,       \* PartitionManager.partitions
    last_call,        \* the last manager call and what it returned
    mgr_calls,        \* the <<index, state>> pairs the manager's callback received
    walk              \* the running resolve_resource_from or root_partition

VARIABLES
    builder,   \* the PackageBuilder
    added,     \* the resources with_resource was called with: [rrid, data], in call order
    ncalls,    \* the number of calls made on the builder
    built,     \* Some of the version and the result of build_in_memory, once called
    parsed,    \* Some of the input and the result of ResourcePackage::from_memory
    rebuilt    \* Some of what building the duplicate of the parsed package gave

VARIABLES
    readers,    \* the threads that query the manager: where each is in its query
    handles,    \* the file handles the threads have opened
    hash_seed   \* the order in which the HashMaps of the partitions iterate

VARIABLES
    arg,    \* what the function under study is called with
    ret     \* None before the call, then Some of what the call returned

layerVars == <<partition, pc, patch_indices, index, state, calls, result, merged>>

mgrVars == <<partition_infos, partitions, last_call, mgr_calls, walk>>

buildVars == <<builder, added, ncalls, built, parsed, rebuilt>>

queryVars == <<readers, handles, hash_seed>>

pureVars == <<arg, ret>>

vars == <<dir, layerVars, mgrVars, buildVars, queryVars, pureVars>>

\* no builder is in use
NoBuilder ==
    /\ builder = new_with_patch_id(PartitionId("Standard", "", 0), Base)
    /\ added = <<>>
    /\ ncalls = 0
    /\ built = None
    /\ parsed = None
    /\ rebuilt = None

\* no function is under study
NoCall ==
    /\ arg = None
    /\ ret = None

\* no thread queries
NoQuery ==
    /\ readers = <<>>
    /\ handles = <<>>
    /\ hash_seed = "forward"

\* ---------------------------------------------------------------------
\* Directories of the layering runs
\* ---------------------------------------------------------------------

\* the permutations of a finite set, as sequences
Perms(S) ==
    {s \in [1..Cardinality(S) -> S] : \A i, j \in 1..Cardinality(S) : s[i] = s[j] => i = j}

\* utils::read_file_names: the names of the files of the directory, in some order
read_file_names(d) == Perms(DOMAIN d)

\* the unneeded blocks of the patch files: empty, or one rrid
UnneededLists == {<<>>} \cup {<<r>> : r \in RRIDs}

\* what a patch file can hold
PatchContents ==
    {Archive(u, rows) : u \in UnneededLists, rows \in SUBSET RRIDs} \cup {Corrupt}

\* what a base file can hold: a base archive has no unneeded block
BaseContents == {Archive(<<>>, rows) : rows \in SUBSET RRIDs} \cup {Corrupt}

\* the digit strings of the patch file names: "1", "2", and 1 written "01"
PatchDigits == {<<1>>, <<2>>, <<0, 1>>}

\* the partition the layering runs mount
LayerId == PartitionId("Standard", "", 0)

LayerInfo(level) == PartitionInfo(None, None, LayerId, level)

\* the directories of the layering runs: at most MaxPatchFiles patch files of
\* the partition, with or without its base file
LayerDirs ==
    LET stem == PartitionIdToString(LayerId)
        patchNames == {FileName(stem, Some(d)) : d \in PatchDigits}
        baseName == FileName(stem, None)
        patchSets == {P \in SUBSET patchNames : Cardinality(P) <= MaxPatchFiles}
        patchDirs == UNION {[P -> PatchContents] : P \in patchSets}
    IN patchDirs \cup
       {[f \in DOMAIN pd \cup {baseName} |-> IF f = baseName THEN b ELSE pd[f]] :
            pd \in patchDirs, b \in BaseContents}

\* a language partition whose language code is "patch"
LangPatchId == PartitionId("LanguageDlc", "patch", 0)

LangPatchInfo(level) == PartitionInfo(None, None, LangPatchId, level)

\* the directories of the runs on that partition: its base file, which may
\* carry an unneeded block as a patch file does, and at most its patch 1
LangPatchDirs ==
    LET stem == PartitionIdToString(LangPatchId)
        baseName == FileName(stem, None)
        patchName == FileName(stem, Some(<<1>>))
    IN {(baseName :> b) : b \in PatchContents}
       \cup {(baseName :> b) @@ (patchName :> c) : b \in PatchContents, c \in PatchContents}
       \cup {(patchName :> c) : c \in PatchContents}

\* ---------------------------------------------------------------------
\* mount_resource_packages_in_partition_with_callback, step by step
\* ---------------------------------------------------------------------

NoManager ==
    /\ partition_infos = <<>>
    /\ partitions = <<>>
    /\ last_call = [op |-> "none", result |-> "none"]
    /\ mgr_calls = <<>>
    /\ walk = [op |-> "none", active |-> FALSE]

InitLayer ==
    /\ \/ /\ dir \in LayerDirs
          /\ \E level \in 0..MaxLevel : partition = NewPartition(LayerInfo(level))
       \/ /\ dir \in LangPatchDirs
          /\ \E level \in 0..MaxLevel : partition = NewPartition(LangPatchInfo(level))
    /\ pc = "start"
    /\ patch_indices = <<>>
    /\ index = 1
    /\ state = PartitionState(TRUE, FALSE, 0, 1)
    /\ calls = <<>>
    /\ result = "none"
    /\ merged = <<>>
    /\ NoManager
    /\ NoBuilder
    /\ NoQuery
    /\ NoCall

\* lines 139-154: the patch indices are read from the directory, whose file names
\* come in some order; a missing base ends the call with Ok
ReadPatchIndices ==
    /\ pc = "start"
    /\ \E listing \in read_file_names(dir) :
       LET patch_idx_result == read_patch_indices(partition.info, dir, listing)
       IN IF ~patch_idx_result.ok
          THEN /\ state' = [state EXCEPT !.installing = FALSE]
               /\ calls' = Append(calls, state')
               /\ result' = "Ok"
               /\ pc' = "done"
               /\ UNCHANGED patch_indices
          ELSE /\ patch_indices' = patch_idx_result.val
               /\ pc' = "base"
               /\ UNCHANGED <<state, calls, result>>
    /\ UNCHANGED <<dir, partition, index, merged, mgrVars, buildVars, queryVars, pureVars>>

\* lines 156-157: the base archive is merged
MountBase ==
    /\ pc = "base"
    /\ LET r == mount_package(partition, dir, filename(partition.info, Base), Base)
       IN IF ~r.ok
          THEN /\ result' = "Err"
               /\ pc' = "done"
               /\ UNCHANGED <<partition, merged>>
          ELSE /\ partition' = r.val
               /\ merged' = Append(merged, Base)
               /\ pc' = "patches"
               /\ UNCHANGED result
    /\ UNCHANGED <<dir, patch_indices, index, state, calls, mgrVars, buildVars, queryVars, pureVars>>

\* lines 159-165: one turn of the loop over patch_indices
MountPatch ==
    /\ pc = "patches"
    /\ index <= Len(patch_indices)
    /\ LET patch_id == patch_indices[index]
           r == mount_package(partition, dir, filename(partition.info, patch_id), patch_id)
       IN IF ~r.ok
          THEN /\ result' = "Err"
               /\ pc' = "done"
               /\ UNCHANGED <<partition, merged, index, state, calls>>
          ELSE /\ partition' = r.val
               /\ merged' = Append(merged, patch_id)
               /\ state' = [state EXCEPT !.install_progress =
                                [num |-> index - 1, den |-> Len(patch_indices)]]
               /\ calls' = Append(calls, state')
               /\ index' = index + 1
               /\ UNCHANGED <<result, pc>>
    /\ UNCHANGED <<dir, patch_indices, mgrVars, buildVars, queryVars, pureVars>>

\* the final report made without waiting for the end of the loop
FinishMountBeforeLoopEnd ==
    /\ pc = "patches"
    /\ state' = PartitionState(FALSE, TRUE, 1, 1)
    /\ calls' = Append(calls, state')
    /\ result' = "Ok"
    /\ pc' = "done"
    /\ UNCHANGED <<dir, partition, patch_indices, index, merged, mgrVars, buildVars, queryVars, pureVars>>

\* lines 166-171: the loop is over, the partition is reported mounted
FinishMount ==
    /\ pc = "patches"
    /\ index > Len(patch_indices)
    /\ state' = PartitionState(FALSE, TRUE, 1, 1)
    /\ calls' = Append(calls, state')
    /\ result' = "Ok"
    /\ pc' = "done"
    /\ UNCHANGED <<dir, partition, patch_indices, index, merged, mgrVars, buildVars, queryVars, pureVars>>

NextLayer == ReadPatchIndices \/ MountBase \/ MountPatch \/ FinishMount

SpecLayer == InitLayer /\ [][NextLayer]_vars

\* ---------------------------------------------------------------------
\* PartitionManager: sources, directories, calls
\* ---------------------------------------------------------------------

\* the sequences over S of length at most n
SeqsUpTo(S, n) == UNION {[1..k -> S] : k \in 0..n}

\* the elements of a sequence
Range(s) == {s[i] : i \in DOMAIN s}

\* the partition lines of the newest dialect: a partition named b under a is an
\* addon
HM3Lines ==
    {[kind |-> "partition", name |-> n, parent |-> p,
      type |-> IF n = "b" /\ p = "a" THEN "addon" ELSE "standard", patchlevel |-> 1] :
        n \in {"a", "b"}, p \in {"a", "b"}}

\* the partition lines of the middle dialect
HM2Lines == {[kind |-> "partition", word |-> w, patchlevel |-> 1] : w \in {"chunk", "dlc"}}

\* the lines of the oldest dialect
H2016Lines == HM2Lines \cup {[kind |-> "langdlc", lang |-> "en"]}

\* the manifests of the three dialects
ManifestSources ==
    {[kind |-> "HM3", data |-> m] : m \in SeqsUpTo(HM3Lines, MaxLines)}
    \cup {[kind |-> "HM2", data |-> m] : m \in SeqsUpTo(HM2Lines, MaxLines)}
    \cup {[kind |-> "HM2016", data |-> m] : m \in SeqsUpTo(H2016Lines, MaxLines)}

\* PackageDefinitionSource::Custom with one PartitionInfo, taken from a manifest
CustomSources ==
    {[kind |-> "Custom", data |-> <<info>>] :
        info \in UNION {Range(read(src).val) : src \in ManifestSources}}

\* the first runtime resource id: the one the archives of the manager runs hold
HeldRRID == CHOOSE r \in RRIDs : \A q \in RRIDs : r <= q

\* what the directory holds for one partition in the runs that mount
MountTags == {"absent", "corrupt", "holds", "badpatch"}

\* what the directory holds for one partition in the runs that query
ResolveTags == {"absent", "empty", "holds"}

\* the files of one partition: no base archive but a patch; a base archive the
\* reader rejects; a base archive with no row; a base archive with a row; a
\* base archive with a row and a patch 1 the reader rejects
FilesOf(stem, tag) ==
    LET base == FileName(stem, None)
        patch == FileName(stem, Some(<<1>>))
    IN CASE tag = "absent" -> (patch :> Archive(<<>>, {HeldRRID}))
         [] tag = "corrupt" -> (base :> Corrupt)
         [] tag = "empty" -> (base :> Archive(<<>>, {}))
         [] tag = "holds" -> (base :> Archive(<<>>, {HeldRRID}))
         [] tag = "badpatch" -> (base :> Archive(<<>>, {HeldRRID})) @@ (patch :> Corrupt)

\* the runtime directories for a list of PartitionInfos
MgrDirs(infos, tags) ==
    LET stems == {PartitionIdToString(info.id) : info \in Range(infos)}
    IN {[f \in UNION {DOMAIN FilesOf(st, choice[st]) : st \in stems} |->
            FilesOf(f.stem, choice[f.stem])[f]] : choice \in [stems -> tags]}

RECURSIVE SomeListing(_)
\* the elements of a set in some order
SomeListing(S) ==
    IF S = {} THEN <<>>
    ELSE LET x == CHOOSE x \in S : TRUE IN <<x>> \o SomeListing(S \ {x})

\* a sequence back to front
Reverse(s) == [i \in DOMAIN s |-> s[Len(s) + 1 - i]]

\* utils::read_file_names on the runtime directory of the manager: one order of
\* the file names and the opposite one, so that any two files come both ways
DirListings(d) == {SomeListing(DOMAIN d), Reverse(SomeListing(DOMAIN d))}

NoLayer ==
    /\ partition = NewPartition(LayerInfo(0))
    /\ pc = "idle"
    /\ patch_indices = <<>>
    /\ index = 1
    /\ state = PartitionState(FALSE, FALSE, 0, 1)
    /\ calls = <<>>
    /\ result = "none"
    /\ merged = <<>>

NoWalk == [op |-> "none", active |-> FALSE]

\* PartitionManager::new: the source is read, nothing is mounted
NewManager(tags) ==
    /\ \E src \in ManifestSources \cup CustomSources :
          /\ read(src).ok
          /\ partition_infos = read(src).val
    /\ dir \in MgrDirs(partition_infos, tags)
    /\ partitions = <<>>
    /\ last_call = [op |-> "none", result |-> "none"]
    /\ mgr_calls = <<>>
    /\ walk = NoWalk
    /\ NoLayer
    /\ NoBuilder
    /\ NoQuery
    /\ NoCall

InitMount == NewManager(MountTags)

InitResolve == NewManager(ResolveTags)

\* a mount_partitions that pushes the partitions it could read and returns the
\* first error
MountPartitionsKeepRead ==
    /\ walk.op = "none"
    /\ \E listing \in DirListings(dir) :
          LET r == ReadPartitions(partition_infos, 1, dir, listing, <<>>, <<>>)
              kept == ReadPartitionsSkipFailed(partition_infos, 1, dir, listing, <<>>, <<>>)
          IN /\ partitions' = partitions \o kept.result.val
             /\ last_call' = [op |-> "mount_partitions", arg |-> None,
                              before |-> partitions,
                              result |-> IF r.result.ok THEN Ok(<<>>) ELSE r.result]
             /\ mgr_calls' = r.calls
    /\ UNCHANGED <<dir, partition_infos, walk, layerVars, buildVars, queryVars, pureVars>>

\* PartitionManager::mount_partitions
MountPartitions ==
    /\ walk.op = "none"
    /\ \E listing \in DirListings(dir) :
          LET r == ReadPartitions(partition_infos, 1, dir, listing, <<>>, <<>>)
          IN /\ partitions' = IF r.result.ok THEN partitions \o r.result.val
                                ELSE partitions
             /\ last_call' = [op |-> "mount_partitions", arg |-> None,
                              before |-> partitions,
                              result |-> IF r.result.ok THEN Ok(<<>>) ELSE r.result]
             /\ mgr_calls' = r.calls
    /\ UNCHANGED <<dir, partition_infos, walk, layerVars, buildVars, queryVars, pureVars>>

\* PartitionManager::mount_partition, called with a PartitionInfo of the manager
MountPartition ==
    /\ walk.op = "none"
    /\ \E i \in DOMAIN partition_infos, listing \in DirListings(dir) :
          LET r == try_read_partition(dir, partition_infos[i], listing)
          IN /\ partitions' = IF r.result.ok /\ r.result.val.some
                                THEN Append(partitions, r.result.val.val)
                                ELSE partitions
             /\ last_call' = [op |-> "mount_partition", arg |-> Some(partition_infos[i]),
                              before |-> partitions,
                              result |-> IF r.result.ok THEN Ok(<<>>) ELSE r.result]
             /\ mgr_calls' = [k \in 1..Len(r.calls) |->
                                 [index |-> None, state |-> r.calls[k]]]
    /\ UNCHANGED <<dir, partition_infos, walk, layerVars, buildVars, queryVars, pureVars>>

\* the first mount call of a manager
MountPartitionsOnce == last_call.op = "none" /\ MountPartitions

MountPartitionOnce == last_call.op = "none" /\ MountPartition

\* a run of one mount call
NextMount == MountPartitionsOnce \/ MountPartitionOnce

SpecMount == InitMount /\ [][NextMount]_vars

\* the partition ids a query can name: those of the manifest
QueryIds == {info.id : info \in Range(partition_infos)}

\* resolve_resource_from is called; a run follows one query
StartResolve ==
    /\ walk.op = "none"
    /\ \E partition_id \in QueryIds, resource_id \in {HeldRRID} :
          walk' = [op |-> "resolve", active |-> TRUE, partition_id |-> partition_id,
                   resource_id |-> resource_id, cur |-> partition_id, trail |-> <<>>,
                   result |-> None]
    /\ UNCHANGED <<dir, partition_infos, partitions, last_call, mgr_calls, layerVars, buildVars, queryVars, pureVars>>

\* one activation of resolve_resource_from: it returns, or it calls itself with
\* the parent's id
ResolveStep ==
    /\ walk.active
    /\ walk.op = "resolve"
    /\ LET r == resolve_resource_from(partitions, walk.cur, walk.resource_id)
       IN IF r.returns
          THEN walk' = [walk EXCEPT !.active = FALSE, !.result = Some(r.val)]
          ELSE /\ Len(walk.trail) < MaxWalk
               /\ walk' = [walk EXCEPT !.cur = r.partition_id,
                                       !.trail = Append(walk.trail, walk.cur)]
    /\ UNCHANGED <<dir, partition_infos, partitions, last_call, mgr_calls, layerVars, buildVars, queryVars, pureVars>>

\* root_partition is called (lines 244, 257)
StartRoot ==
    /\ walk.op = "none"
    /\ walk' = IF partition_infos = <<>>
               THEN [op |-> "root", active |-> FALSE, cur |-> None, trail |-> <<>>,
                     result |-> Some(Err(NoRootPartition))]
               ELSE [op |-> "root", active |-> TRUE, cur |-> Some(partition_infos[1]),
                     trail |-> <<>>, result |-> None]
    /\ UNCHANGED <<dir, partition_infos, partitions, last_call, mgr_calls, layerVars, buildVars, queryVars, pureVars>>

\* one turn of the loop of root_partition
RootStep ==
    /\ walk.active
    /\ walk.op = "root"
    /\ LET r == root_partition(partitions, walk.cur.val)
       IN IF r.returns
          THEN walk' = [walk EXCEPT !.active = FALSE, !.result = Some(r.val)]
          ELSE /\ Len(walk.trail) < MaxWalk
               /\ walk' = [walk EXCEPT !.cur = Some(r.partition_info),
                                       !.trail = Append(walk.trail, walk.cur.val.id)]
    /\ UNCHANGED <<dir, partition_infos, partitions, last_call, mgr_calls, layerVars, buildVars, queryVars, pureVars>>

\* a run of queries: the manager mounts with one call and is then asked
NextResolve ==
    \/ MountPartitionsOnce
    \/ MountPartitionOnce
    \/ StartResolve
    \/ ResolveStep
    \/ StartRoot
    \/ RootStep

SpecResolve == InitResolve /\ [][NextResolve]_vars

\* ---------------------------------------------------------------------
\* Queries of two threads on a mounted manager
\* ---------------------------------------------------------------------

\* the threads that query the manager
Threads == {1, 2}

\* the manifest of the query runs: a chunk partition and a dlc partition under it
QuerySource ==
    [kind |-> "HM2", data |-> <<[kind |-> "partition", word |-> "chunk", patchlevel |-> 1],
                                [kind |-> "partition", word |-> "dlc", patchlevel |-> 1]>>]

\* the files of one partition in the query runs: a base archive with both rrids
\* and a patch 1 that lists the first again and deletes the second; or a base
\* archive with the second rrid alone
QueryFilesOf(stem, tag) ==
    LET base == FileName(stem, None)
        patch == FileName(stem, Some(<<1>>))
        other == CHOOSE r \in RRIDs : r # HeldRRID
    IN IF tag = "patched"
       THEN (base :> Archive(<<>>, RRIDs)) @@ (patch :> Archive(<<other>>, {HeldRRID}))
       ELSE (base :> Archive(<<>>, {other}))

\* the runtime directories of the query runs
QueryDirs(infos) ==
    LET stems == {PartitionIdToString(info.id) : info \in Range(infos)}
    IN {[f \in UNION {DOMAIN QueryFilesOf(st, choice[st]) : st \in stems} |->
            QueryFilesOf(f.stem, choice[f.stem])[f]] :
                choice \in [stems -> {"patched", "plain"}]}

\* the queries a thread can make
Queries ==
    {[op |-> o, partition_id |-> id, rrid |-> r] :
        o \in {"read_resource_from", "contains", "resolve_resource_from",
               "resource_patch_indices", "resource_removal_indices"},
        id \in QueryIds, r \in RRIDs}
    \cup {[op |-> "partitions_with_resource", partition_id |-> None, rrid |-> r] :
             r \in RRIDs}

\* a thread that has made no query
IdleReader == [pc |-> "idle"]

\* a file handle that is not open
Closed == [open |-> FALSE]

InitQuery ==
    /\ partition_infos = read(QuerySource).val
    /\ dir \in QueryDirs(partition_infos)
    /\ partitions = <<>>
    /\ last_call = [op |-> "none", result |-> "none"]
    /\ mgr_calls = <<>>
    /\ walk = NoWalk
    /\ NoLayer
    /\ NoBuilder
    /\ readers = [t \in Threads |-> IdleReader]
    /\ handles = [t \in Threads |-> Closed]
    /\ hash_seed \in {"forward", "backward"}
    /\ NoCall

\* the manager has mounted its partitions
ManagerMounted == last_call.op = "mount_partitions" /\ last_call.result.ok

\* the order in which the HashMap packages of a partition is iterated: it is
\* the same for every iteration of a map that is not written
HashOrder(keys) ==
    IF hash_seed = "forward" THEN SomeListing(keys) ELSE Reverse(SomeListing(keys))

\* one file handle that every call of read_resource shares
SharedHandle(t) == 1

\* File::open of read_resource (line 215): the call opens a handle of its own
HandleOf(t) == t

\* the offset of the payload of a row: the rows of an archive have their
\* payloads at distinct offsets, which the model names by the rrid of the row
data_offset(info) == info.runtime_resource_id

\* read_exact: the bytes of the file at the position of the handle, named by
\* the file and the position
ReadExact(handle) == [runtime_resource_id |-> handle.pos, package |-> handle.file]

\* what a query returns when it runs with no other query beside it
Alone(q) ==
    CASE q.op = "read_resource_from" -> read_resource_from(partitions, q.partition_id, q.rrid)
      [] q.op = "contains" ->
             LET found == find_partition(partitions, q.partition_id)
             IN IF found.some THEN Ok(contains(found.val, q.rrid))
                ELSE Err(PartitionNotFound(q.partition_id))
      [] q.op = "resolve_resource_from" ->
             ResolveWalk(partitions, q.partition_id, q.rrid, Len(partitions))
      [] q.op = "partitions_with_resource" -> Ok(partitions_with_resource(partitions, q.rrid))
      [] q.op = "resource_patch_indices" ->
             LET found == find_partition(partitions, q.partition_id)
             IN IF found.some
                THEN Ok(resource_patch_indices(found.val, q.rrid,
                                               HashOrder(DOMAIN found.val.packages)))
                ELSE Err(PartitionNotFound(q.partition_id))
      [] q.op = "resource_removal_indices" ->
             LET found == find_partition(partitions, q.partition_id)
             IN IF found.some
                THEN Ok(resource_removal_indices(found.val, q.rrid,
                                                 HashOrder(DOMAIN found.val.packages)))
                ELSE Err(PartitionNotFound(q.partition_id))

\* a thread that has returned
Returned(q, r) == [pc |-> "done", query |-> q, result |-> r]

\* a thread calls a query of the mounted manager
StartQuery(t) ==
    /\ ManagerMounted
    /\ readers[t].pc = "idle"
    /\ \E q \in Queries :
          readers' = [readers EXCEPT ![t] =
              CASE q.op = "resolve_resource_from" ->
                       [pc |-> "resolve", query |-> q, cur |-> q.partition_id]
                [] q.op = "partitions_with_resource" ->
                       [pc |-> "filter", query |-> q, k |-> 1, acc |-> <<>>]
                [] q.op = "read_resource_from" -> [pc |-> "lookup", query |-> q]
                [] OTHER -> [pc |-> "borrow", query |-> q]]
    /\ UNCHANGED <<handles, hash_seed, dir, layerVars, mgrVars, buildVars, pureVars>>

\* contains and the history queries: one borrow of the partition
BorrowQuery(t) ==
    /\ readers[t].pc = "borrow"
    /\ readers' = [readers EXCEPT ![t] = Returned(readers[t].query, Alone(readers[t].query))]
    /\ UNCHANGED <<handles, hash_seed, dir, layerVars, mgrVars, buildVars, pureVars>>

\* one activation of resolve_resource_from
ResolveQueryStep(t) ==
    /\ readers[t].pc = "resolve"
    /\ LET r == resolve_resource_from(partitions, readers[t].cur, readers[t].query.rrid)
       IN readers' = [readers EXCEPT ![t] =
              IF r.returns THEN Returned(readers[t].query, r.val)
              ELSE [readers[t] EXCEPT !.cur = r.partition_id]]
    /\ UNCHANGED <<handles, hash_seed, dir, layerVars, mgrVars, buildVars, pureVars>>

\* one turn of the filter_map of partitions_with_resource, and its collect
FilterQueryStep(t) ==
    /\ readers[t].pc = "filter"
    /\ LET k == readers[t].k
       IN readers' = [readers EXCEPT ![t] =
              IF k > Len(partitions)
              THEN Returned(readers[t].query, Ok(readers[t].acc))
              ELSE [readers[t] EXCEPT
                       !.k = k + 1,
                       !.acc = IF contains(partitions[k], readers[t].query.rrid)
                               THEN Append(@, partitions[k].info.id) ELSE @]]
    /\ UNCHANGED <<handles, hash_seed, dir, layerVars, mgrVars, buildVars, pureVars>>

\* read_resource_from up to the File::open of ResourcePackage::read_resource:
\* the partition, the owner of the rrid, its package and the row are looked up
ReadLookup(t) ==
    /\ readers[t].pc = "lookup"
    /\ LET q == readers[t].query
           found == find_partition(partitions, q.partition_id)
       IN readers' = [readers EXCEPT ![t] =
              IF ~found.some THEN Returned(q, Err(PartitionNotFound(q.partition_id)))
              ELSE IF \/ q.rrid \notin DOMAIN found.val.resources
                      \/ found.val.resources[q.rrid] \notin DOMAIN found.val.packages
                      \/ q.rrid \notin DOMAIN found.val.packages[
                                                  found.val.resources[q.rrid]].resources
              THEN Returned(q, Err(PartitionError(q.partition_id)))
              ELSE LET rpkg == found.val.packages[found.val.resources[q.rrid]]
                   IN [pc |-> "open", query |-> q, package_path |-> rpkg.source,
                       resource |-> rpkg.resources[q.rrid]]]
    /\ UNCHANGED <<handles, hash_seed, dir, layerVars, mgrVars, buildVars, pureVars>>

\* File::open(package_path)
ReadOpen(t) ==
    /\ readers[t].pc = "open"
    /\ handles' = [handles EXCEPT ![HandleOf(t)] =
                      [open |-> TRUE, file |-> readers[t].package_path, pos |-> 0]]
    /\ readers' = [readers EXCEPT ![t].pc = "seek"]
    /\ UNCHANGED <<hash_seed, dir, layerVars, mgrVars, buildVars, pureVars>>

\* file.seek(SeekFrom::Start(data_offset))
ReadSeek(t) ==
    /\ readers[t].pc = "seek"
    /\ handles' = [handles EXCEPT ![HandleOf(t)].pos = data_offset(readers[t].resource)]
    /\ readers' = [readers EXCEPT ![t].pc = "read"]
    /\ UNCHANGED <<hash_seed, dir, layerVars, mgrVars, buildVars, pureVars>>

\* file.read_exact(&mut buffer), the end of read_resource and the return of
\* read_resource_from; the handle is dropped
ReadReturn(t) ==
    /\ readers[t].pc = "read"
    /\ readers' = [readers EXCEPT ![t] =
                      Returned(readers[t].query, Ok(ReadExact(handles[HandleOf(t)])))]
    /\ handles' = [handles EXCEPT ![HandleOf(t)] = Closed]
    /\ UNCHANGED <<hash_seed, dir, layerVars, mgrVars, buildVars, pureVars>>

\* the manager mounts its partitions with one call, and two threads then make
\* one query each
NextQuery ==
    \/ MountPartitionsOnce
    \/ \E t \in Threads : StartQuery(t)
    \/ \E t \in Threads : BorrowQuery(t)
    \/ \E t \in Threads : ResolveQueryStep(t)
    \/ \E t \in Threads : FilterQueryStep(t)
    \/ \E t \in Threads : ReadLookup(t)
    \/ \E t \in Threads : ReadOpen(t)
    \/ \E t \in Threads : ReadSeek(t)
    \/ \E t \in Threads : ReadReturn(t)

SpecQuery == InitQuery /\ [][NextQuery]_vars

\* ---------------------------------------------------------------------
\* Building an archive, parsing it and building its duplicate
\* ---------------------------------------------------------------------

\* the number of calls made on a builder before it is built
MaxCalls == 3

\* the resource type of the built resources
TempType == <<"T", "E", "M", "P">>

\* the data of the resource added by the k-th with_resource call: no two calls
\* add the same bytes
Payload(k, rrid) == <<k, rrid>>

\* the references of the built resources: the resource of the first rrid refers
\* to the second rrid with V1 flags and to itself with V2 flags, the others have
\* no reference
ReferencesOf(rrid) ==
    IF rrid = HeldRRID
    THEN <<<<CHOOSE r \in RRIDs : r # rrid, FlagsV1(TRUE, FALSE, TRUE)>>,
           <<rrid, FlagsV2(31, FALSE, "INSTALL")>>>>
    ELSE <<>>

\* the patch ids the builders are given
BuilderPatchIds == {Base, Patch(1)}

\* the format versions
PackageVersions == {"RPKGv1", "RPKGv2"}

\* PackageBuilder::new and new_with_patch_id
InitBuild ==
    /\ builder \in {PackageBuilderNew(69, "Addon")}
                       \cup {new_with_patch_id(PartitionId("Standard", "", 69), p) :
                                p \in BuilderPatchIds}
    /\ added = <<>>
    /\ ncalls = 0
    /\ built = None
    /\ parsed = None
    /\ rebuilt = None
    /\ dir = EmptyMap
    /\ NoLayer
    /\ NoManager
    /\ NoQuery
    /\ NoCall

\* with_resource is called with a resource made by from_memory
WithResource ==
    /\ built = None
    /\ ncalls < MaxCalls
    /\ \E rrid \in RRIDs, compression_level \in {None, Some(4)},
          should_scramble \in BOOLEAN :
          LET data == Payload(Len(added) + 1, rrid)
              resource == with_references(
                              from_memory_resource(rrid, TempType, data,
                                                   compression_level, should_scramble),
                              ReferencesOf(rrid))
          IN /\ builder' = with_resource(builder, resource)
             /\ added' = Append(added, [rrid |-> rrid, data |-> data])
    /\ ncalls' = ncalls + 1
    /\ UNCHANGED <<built, parsed, rebuilt, dir, layerVars, mgrVars, queryVars, pureVars>>

\* with_unneeded_resource is called
WithUnneededResource ==
    /\ built = None
    /\ ncalls < MaxCalls
    /\ \E rrid \in RRIDs : builder' = with_unneeded_resource(builder, rrid)
    /\ ncalls' = ncalls + 1
    /\ UNCHANGED <<added, built, parsed, rebuilt, dir, layerVars, mgrVars, queryVars, pureVars>>

\* with_patch_id is called
WithPatchId ==
    /\ built = None
    /\ ncalls < MaxCalls
    /\ \E patch_id \in BuilderPatchIds : builder' = with_patch_id(builder, patch_id)
    /\ ncalls' = ncalls + 1
    /\ UNCHANGED <<added, built, parsed, rebuilt, dir, layerVars, mgrVars, queryVars, pureVars>>

\* use_legacy_references is called
UseLegacyReferences ==
    /\ built = None
    /\ ncalls < MaxCalls
    /\ builder' = use_legacy_references(builder)
    /\ ncalls' = ncalls + 1
    /\ UNCHANGED <<added, built, parsed, rebuilt, dir, layerVars, mgrVars, queryVars, pureVars>>

\* build_in_memory is called: the builder is consumed
BuildInMemory ==
    /\ built = None
    /\ \E package_version \in PackageVersions :
          built' = Some([version |-> package_version,
                         result |-> build_in_memory(builder, package_version)])
    /\ UNCHANGED <<builder, added, ncalls, parsed, rebuilt, dir, layerVars, mgrVars, queryVars, pureVars>>

\* the byte vectors given to from_memory: the built archive; the built archive
\* with another magic, for an archive without a metadata block; the built
\* archive with the rrid of its second offset entry overwritten with that of the
\* first; the built archive cut off after its offset table
ParseInputs(file) ==
    {file}
    \cup (IF file.magic = "GKPR" THEN {[file EXCEPT !.magic = "XKPR"]} ELSE {})
    \cup (IF Len(file.offset_table) >= 2
          THEN {[file EXCEPT !.offset_table[2].runtime_resource_id =
                                 file.offset_table[1].runtime_resource_id]}
          ELSE {})
    \cup (IF Len(file.offset_table) >= 1
          THEN {[file EXCEPT !.metadata_table = <<>>, !.data = <<>>]}
          ELSE {})

\* ResourcePackage::from_memory is called on a byte vector, with is_patch saying
\* whether the archive was built as a patch
FromMemory ==
    /\ built # None
    /\ built.val.result.ok
    /\ parsed = None
    /\ \E input \in ParseInputs(built.val.result.val) :
          parsed' = Some([input |-> input,
                          result |-> from_memory(input, is_patch(builder.patch_id))])
    /\ UNCHANGED <<builder, added, ncalls, built, rebuilt, dir, layerVars, mgrVars, queryVars, pureVars>>

\* from_resource_package on the parsed package, and build_in_memory of what it
\* gives for the version of the package
BuildDuplicate(package) ==
    LET duplicate == from_resource_package(package)
        package_version == version(package)
    IN IF ~package_version.ok THEN package_version
       ELSE IF ~duplicate.ok THEN duplicate
       ELSE build_in_memory(duplicate.val, package_version.val)

\* the parsed package is duplicated and built again, nothing else being called
\* on the new builder
Rebuild ==
    /\ parsed # None
    /\ parsed.val.result.ok
    /\ rebuilt = None
    /\ rebuilt' = Some(BuildDuplicate(parsed.val.result.val))
    /\ UNCHANGED <<builder, added, ncalls, built, parsed, dir, layerVars, mgrVars, queryVars, pureVars>>

NextBuild ==
    \/ WithResource
    \/ WithUnneededResource
    \/ WithPatchId
    \/ UseLegacyReferences
    \/ BuildInMemory
    \/ FromMemory
    \/ Rebuild

SpecBuild == InitBuild /\ [][NextBuild]_vars

\* ---------------------------------------------------------------------
\* The layering claims
\* ---------------------------------------------------------------------

\* the order of the PatchIds as the claims state it: Base < Patch(0) < Patch(1) < ...
Rank(p) == IF p.kind = "Base" THEN -1 ELSE p.n

\* the archive merged as p lists rrid in its offset table
Lists(p, rrid) == rrid \in DOMAIN partition.packages[p].resources

\* the archive merged as p names rrid as unneeded
Deletes(p, rrid) ==
    /\ partition.packages[p].unneeded_resources.some
    /\ \E i \in DOMAIN partition.packages[p].unneeded_resources.val :
           partition.packages[p].unneeded_resources.val[i] = rrid

\* the merged archives that mention rrid
Mentioning(rrid) == {p \in DOMAIN partition.packages : Lists(p, rrid) \/ Deletes(p, rrid)}

\* the greatest PatchId of a non-empty set
Latest(S) == CHOOSE p \in S : \A q \in S : Rank(q) <= Rank(p)

\* the call has returned Ok and reported the partition mounted
Mounted == pc = "done" /\ result = "Ok" /\ state.mounted

\* C1: an rrid is in the index iff the latest merged archive that mentions it
\* lists it in its offset table; a patch that names an rrid both as unneeded and
\* in its offset table, no later archive mentioning it, owns it.
C1_IndexIsLatestMention ==
    \A rrid \in RRIDs :
        /\ contains(partition, rrid) <=>
              (Mentioning(rrid) # {} /\ Lists(Latest(Mentioning(rrid)), rrid))
        /\ \A p \in DOMAIN partition.packages :
              (Lists(p, rrid) /\ Deletes(p, rrid) /\ p = Latest(Mentioning(rrid)))
                  => (contains(partition, rrid) /\ partition.resources[rrid] = p)

\* a mounted partition in which a patch both deletes and re-adds an rrid of the
\* base and deletes another
C1_Witness ==
    /\ Mounted
    /\ Base \in DOMAIN partition.packages
    /\ \E p \in DOMAIN partition.packages, r1, r2 \in RRIDs :
          /\ p.kind = "Patch"
          /\ Lists(Base, r1) /\ Lists(p, r1) /\ Deletes(p, r1)
          /\ contains(partition, r1)
          /\ partition.resources[r1] = p
          /\ r2 # r1 /\ Lists(Base, r2) /\ ~contains(partition, r2)

\* the merged archives whose offset table lists rrid
Holding(rrid) == {p \in DOMAIN partition.packages : Lists(p, rrid)}

\* C2: every rrid of the index maps to the greatest PatchId among the merged
\* archives whose offset table lists it.
C2_OwnerIsGreatestHolder ==
    \A rrid \in DOMAIN partition.resources :
        /\ partition.resources[rrid] \in Holding(rrid)
        /\ \A q \in Holding(rrid) : Rank(q) <= Rank(partition.resources[rrid])

\* a mounted partition with an rrid the base and two patches list
C2_Witness ==
    /\ Mounted
    /\ \E rrid \in DOMAIN partition.resources :
          /\ Cardinality(Holding(rrid)) = 3
          /\ partition.resources[rrid] = Patch(2)

\* C3: every rrid of the index maps to a key of packages whose package lists it,
\* so get_resource_info and read_resource on it do not fail with NotMounted or
\* ResourceNotAvailable, in every state of the merge.
C3_IndexPointsIntoPackages ==
    \A rrid \in RRIDs :
        contains(partition, rrid) =>
            /\ partition.resources[rrid] \in DOMAIN partition.packages
            /\ rrid \in DOMAIN partition.packages[partition.resources[rrid]].resources
            /\ get_resource_info(partition, rrid).ok
            /\ read_resource(partition, rrid).ok
            /\ get_resource_info(partition, rrid).val.package =
                   filename(partition.info, partition.resources[rrid])

\* a state in the middle of the merge: a patch is merged, another is still to
\* come, and the index holds an rrid of the base and one of the patch
C3_Witness ==
    /\ pc = "patches"
    /\ index = 2 /\ Len(patch_indices) = 2
    /\ \E r1, r2 \in DOMAIN partition.resources :
          partition.resources[r1] = Base /\ partition.resources[r2].kind = "Patch"

\* C6: the archives are merged Base first and then the patches in strictly
\* ascending patch index.
C6_MergedStrictlyAscending ==
    /\ merged # <<>> => merged[1] = Base
    /\ \A i, j \in DOMAIN merged : i < j => Rank(merged[i]) < Rank(merged[j])

\* the directory without the patch files whose index is above the level
BelowLevel(d, info) ==
    [f \in {g \in DOMAIN d : ~(PatchCapture(info, g).some
                                  /\ ParseUsize(PatchCapture(info, g).val) > info.patch_level)}
        |-> d[f]]

BaseAbsent(info) == filename(info, Base) \notin DOMAIN dir

\* the state a partition with no base archive is reported with
NotMountedState == PartitionState(FALSE, FALSE, 0, 1)

\* the states the callback of the last mount_partitions received for position i
CallsOf(i) == SelectSeq(mgr_calls, LAMBDA c : c.index = Some(i))

\* C4: a partition whose base archive is absent is not an error: mounting it
\* returns Ok, the callback receives one state, with installing = false and
\* mounted = false, no archive of it is merged and the manager does not add it
\* to its list; every partition of the list has Base in its packages.
C4_AbsentBaseIsNotAnError ==
    /\ (last_call.op = "mount_partition" /\ BaseAbsent(last_call.arg.val)) =>
          /\ last_call.result.ok
          /\ partitions = last_call.before
          /\ mgr_calls = <<[index |-> None, state |-> NotMountedState]>>
          /\ \A listing \in DirListings(dir) :
                LET m == mount_resource_packages_in_partition_with_callback(
                             NewPartition(last_call.arg.val), dir, listing)
                IN /\ m.result = "Ok"
                   /\ m.partition.packages = EmptyMap
                   /\ m.partition.resources = EmptyMap
    /\ last_call.op = "mount_partitions" =>
          /\ \A i \in DOMAIN partition_infos :
                BaseAbsent(partition_infos[i]) =>
                    /\ CallsOf(i) \in {<<>>, <<[index |-> Some(i), state |-> NotMountedState]>>}
                    /\ last_call.result.ok => CallsOf(i) # <<>>
                    /\ ~last_call.result.ok =>
                          last_call.result.err.id # partition_infos[i].id
    /\ \A k \in DOMAIN partitions :
          /\ ~BaseAbsent(partitions[k].info)
          /\ Base \in DOMAIN partitions[k].packages

\* mount_partitions has returned Ok on a manifest with a partition whose base
\* archive is absent, a patch of it being there, and has mounted another
C4_Witness ==
    /\ last_call.op = "mount_partitions"
    /\ last_call.result.ok
    /\ partitions # <<>>
    /\ \E i \in DOMAIN partition_infos :
          /\ BaseAbsent(partition_infos[i])
          /\ filename(partition_infos[i], Patch(1)) \in DOMAIN dir
          /\ partition_infos[i].patch_level >= 1

\* an archive of the partition, within its patch level, is rejected by the reader
ParseFails(info) ==
    /\ ~BaseAbsent(info)
    /\ \E f \in DOMAIN dir :
          /\ f.stem = PartitionIdToString(info.id)
          /\ dir[f].corrupt
          /\ f.patch.some => ParseUsize(f.patch.val) <= info.patch_level

\* the base archive of the partition is there and no archive of it is rejected
Intact(info) == ~BaseAbsent(info) /\ ~ParseFails(info)

\* the positions of partition_infos whose partition has the property
Positions(P(_)) == {i \in DOMAIN partition_infos : P(partition_infos[i])}

\* the PartitionInfos at the positions of I, in the order of partition_infos
InfosAt(I) == SelectSeq([i \in DOMAIN partition_infos |-> <<i, partition_infos[i]>>],
                        LAMBDA e : e[1] \in I)

IsMounted(id) == \E k \in DOMAIN partitions : partitions[k].info.id = id

\* the mounted partition a query by id reaches: the earliest of the list
MountedAs(id) ==
    partitions[CHOOSE k \in DOMAIN partitions :
                  /\ partitions[k].info.id = id
                  /\ \A j \in 1..(k - 1) : partitions[j].info.id # id]

RECURSIVE ChainFrom(_, _)
\* the chain id, parent(id), parent(parent(id)), ... after the ids of seen: it
\* ends at a partition with no parent, at an id that is not mounted (whose
\* parent the manager cannot know) or where it would come back to an id
ChainFrom(id, seen) ==
    IF id \in Range(seen) THEN seen
    ELSE IF ~IsMounted(id) THEN Append(seen, id)
    ELSE IF ~MountedAs(id).info.parent.some THEN Append(seen, id)
    ELSE ChainFrom(MountedAs(id).info.parent.val, Append(seen, id))

Chain(id) == ChainFrom(id, <<>>)

\* the positions of the chain whose partition holds the rrid in its index
Holders(ch, rrid) ==
    {k \in DOMAIN ch : IsMounted(ch[k]) /\ rrid \in DOMAIN MountedAs(ch[k]).resources}

\* the least element of a non-empty set of numbers
Least(S) == CHOOSE k \in S : \A j \in S : k <= j

\* a call of resolve_resource_from has returned
Resolved == walk.op = "resolve" /\ ~walk.active

\* C8: resolve_resource_from returns the resource info and the id of the first
\* partition on the chain of the starting partition whose index contains the
\* rrid; a partition further up never wins over a nearer one; it returns Ok
\* only if a partition of the chain holds the rrid.
C8_FirstHolderOnChainWins ==
    Resolved =>
        LET ch == Chain(walk.partition_id)
            hs == Holders(ch, walk.resource_id)
        IN /\ walk.result.val.ok <=> hs # {}
           /\ hs # {} =>
                 LET owner == ch[Least(hs)]
                     info == walk.result.val.val[1]
                 IN /\ walk.result.val.val[2] = owner
                    /\ info.runtime_resource_id = walk.resource_id
                    /\ info.package \in DOMAIN dir
                    /\ info.package.stem = PartitionIdToString(owner)
                    /\ walk.resource_id \in dir[info.package].rows

\* a call has returned the parent of the starting partition, which does not
\* hold the rrid, while the grandparent holds it too
C8_Witness ==
    /\ Resolved
    /\ walk.result.val.ok
    /\ LET ch == Chain(walk.partition_id)
       IN /\ Len(ch) = 3
          /\ Holders(ch, walk.resource_id) = {2, 3}
          /\ walk.result.val.val[2] = ch[2]
          /\ walk.trail = <<ch[1]>>

\* C9 as stated: for a mounted starting partition and an rrid no partition of
\* its chain holds, resolve_resource_from returns ResourceNotFound, whether or
\* not every parent named along the chain is mounted.
C9_AlwaysResourceNotFound ==
    (/\ Resolved
     /\ IsMounted(walk.partition_id)
     /\ Holders(Chain(walk.partition_id), walk.resource_id) = {}) =>
        walk.result.val = Err(ResourceNotFound(walk.resource_id))

\* C9: for a mounted starting partition and an rrid no partition of its chain
\* holds, resolve_resource_from returns ResourceNotFound if every partition of
\* the chain is mounted, and PartitionNotFound, naming the parent, if a parent
\* named along the chain is not mounted.
C9_NotFoundOrParentMissing ==
    (/\ Resolved
     /\ IsMounted(walk.partition_id)
     /\ Holders(Chain(walk.partition_id), walk.resource_id) = {}) =>
        LET ch == Chain(walk.partition_id)
            missing == {k \in DOMAIN ch : ~IsMounted(ch[k])}
        IN IF missing = {}
           THEN walk.result.val = Err(ResourceNotFound(walk.resource_id))
           ELSE walk.result.val = Err(PartitionNotFound(ch[Least(missing)]))

\* a call from a mounted partition whose parent is mounted and whose
\* grandparent is not has returned, no partition of the chain holding the rrid
C9_Witness ==
    /\ Resolved
    /\ LET ch == Chain(walk.partition_id)
       IN /\ Len(ch) = 3
          /\ IsMounted(ch[1])
          /\ IsMounted(ch[2])
          /\ ~IsMounted(ch[3])
          /\ Holders(ch, walk.resource_id) = {}
          /\ walk.trail = <<ch[1], ch[2]>>

\* the partition id the running call is at
WalkAt ==
    IF walk.op = "resolve" THEN <<walk.cur>>
    ELSE IF walk.op = "root" /\ walk.cur.some THEN <<walk.cur.val.id>>
    ELSE <<>>

\* C10: parent links are never followed around a cycle: resolve_resource_from
\* and root_partition never come to a partition id a second time.
C10_NoPartitionWalkedTwice ==
    walk.op # "none" =>
        LET ids == walk.trail \o WalkAt
        IN \A i, j \in DOMAIN ids : ids[i] = ids[j] => i = j

\* C10, the part on root_partition alone: its loop never comes to a partition
\* id a second time.
C10_RootLoopNeverRepeats ==
    walk.op = "root" =>
        LET ids == walk.trail \o WalkAt
        IN \A i, j \in DOMAIN ids : ids[i] = ids[j] => i = j

\* C10, the part on the manifests: no PartitionInfo the manager holds names
\* itself as its parent.
C10_NoSelfParent ==
    \A i \in DOMAIN partition_infos :
        partition_infos[i].parent # Some(partition_infos[i].id)

\* ---------------------------------------------------------------------
\* The history queries
\* ---------------------------------------------------------------------

\* the file the partition merged as p
ArchiveOf(p) == dir[filename(partition.info, p)]

\* the merged archives whose offset table, in the file, has a row for rrid
FileLists(rrid) == {p \in Range(merged) : rrid \in ArchiveOf(p).rows}

\* the merged archives whose file names rrid in an unneeded block
FileDeletes(rrid) == {p \in Range(merged) : rrid \in Range(ArchiveOf(p).unneeded)}

\* the orders in which the HashMap packages can be iterated
PackageOrders == Perms(DOMAIN partition.packages)

\* no PatchId comes twice in ids
NoRepeat(ids) == \A i, j \in DOMAIN ids : ids[i] = ids[j] => i = j

\* C11, as stated: resource_patch_indices gives exactly the PatchIds of the
\* merged archives whose offset table lists the rrid, resource_removal_indices
\* exactly those of the merged archives that name it as unneeded, and Base is
\* never a removal index.
C11_BaseNeverRemovalIndex ==
    \A rrid \in RRIDs : \A order \in PackageOrders :
        /\ Range(resource_patch_indices(partition, rrid, order)) = FileLists(rrid)
        /\ Range(resource_removal_indices(partition, rrid, order)) = FileDeletes(rrid)
        /\ \A i \in DOMAIN resource_removal_indices(partition, rrid, order) :
               resource_removal_indices(partition, rrid, order)[i] # Base

\* C11, amended: the two queries are exact, each PatchId once, in whatever order
\* the map is iterated; Base is a removal index exactly when the name of the base
\* file contains "patch" and the file names the rrid in its unneeded block.
C11_HistoryQueriesExact ==
    \A rrid \in RRIDs : \A order \in PackageOrders :
        LET listing_ids == resource_patch_indices(partition, rrid, order)
            removal_ids == resource_removal_indices(partition, rrid, order)
        IN /\ Range(listing_ids) = FileLists(rrid) /\ NoRepeat(listing_ids)
           /\ Range(removal_ids) = FileDeletes(rrid) /\ NoRepeat(removal_ids)
           /\ Base \in Range(removal_ids) <=>
                 /\ Base \in Range(merged)
                 /\ IsPatchFileName(filename(partition.info, Base))
                 /\ rrid \in Range(ArchiveOf(Base).unneeded)

\* a mounted language partition whose base file names an rrid as unneeded that
\* its patch 1 lists: Base is a removal index of it, Patch(1) a patch index
C11_Witness ==
    /\ Mounted
    /\ \E rrid \in RRIDs : \E order \in PackageOrders :
          /\ resource_removal_indices(partition, rrid, order) = <<Base>>
          /\ resource_patch_indices(partition, rrid, order) = <<Patch(1)>>

\* ---------------------------------------------------------------------
\* The progress callback
\* ---------------------------------------------------------------------

\* install_progress lies within [0, 1]
InUnitInterval(progress) ==
    /\ progress.den > 0
    /\ 0 <= progress.num
    /\ progress.num <= progress.den

\* the call has returned Ok
ReturnedOk == pc = "done" /\ result = "Ok"

\* C18: the states the callback sees during one partition mount are well formed:
\* install_progress is within [0, 1] in every call; installing is true in every
\* call but the final one of a mount that returns Ok, where it is false; mounted
\* is true only in that final call, when Base and every discovered patch have
\* been merged into the index.
C18_CallbackSequenceWellFormed ==
    /\ \A i \in DOMAIN calls :
          /\ InUnitInterval(calls[i].install_progress)
          /\ calls[i].installing <=> ~(i = Len(calls) /\ ReturnedOk)
          /\ calls[i].mounted =>
                /\ i = Len(calls) /\ ReturnedOk
                /\ merged = <<Base>> \o patch_indices
                /\ DOMAIN partition.packages = Range(merged)
    /\ ReturnedOk => calls # <<>>
    /\ Len(calls) <= Len(merged) + 1

\* a mount of a base and two patches that returned Ok: the callback was called
\* after each patch, with progress 0/2 and 1/2, and a last time with mounted
C18_Witness ==
    /\ ReturnedOk
    /\ Len(merged) = 3
    /\ Len(calls) = 3
    /\ calls[1].install_progress = [num |-> 0, den |-> 2]
    /\ calls[2].install_progress = [num |-> 1, den |-> 2]
    /\ calls[3].mounted

\* ---------------------------------------------------------------------
\* The claim on concurrent queries
\* ---------------------------------------------------------------------

\* every query that has returned has returned what it returns alone
ReturnedAsAlone ==
    \A t \in Threads :
        readers[t].pc = "done" => readers[t].result = Alone(readers[t].query)

\* a step leaves the partitions, their indices and packages, the partition
\* infos, the archive files and the iteration order of the maps as they are
NothingWritten ==
    /\ partitions' = partitions
    /\ partition_infos' = partition_infos
    /\ dir' = dir
    /\ hash_seed' = hash_seed

\* C19: once the manager is mounted no step of a query (read_resource, contains,
\* resolve_resource_from, partitions_with_resource, the history queries) writes
\* the partition index or the parsed packages, and in every interleaving of the
\* queries of two threads each query returns what it returns when it runs alone.
C19_QueriesReturnAsAlone ==
    /\ []ReturnedAsAlone
    /\ [][ManagerMounted => NothingWritten]_vars

\* the first thread has read a payload out of one archive file while the
\* second has its own handle open on another, and has sought in it
C19_Witness ==
    /\ ManagerMounted
    /\ readers[1].pc = "done"
    /\ readers[1].query.op = "read_resource_from"
    /\ readers[1].result.ok
    /\ readers[2].pc = "read"
    /\ handles[2].open
    /\ handles[2].file # readers[1].result.val.package
    /\ handles[2].pos # readers[1].result.val.runtime_resource_id

\* ---------------------------------------------------------------------
\* The claims on building and parsing archives
\* ---------------------------------------------------------------------

\* build_in_memory has returned an archive
Built == built # None /\ built.val.result.ok

\* the archive build_in_memory returned
BuiltFile == built.val.result.val

\* from_memory was given the archive as it was built, and has parsed it
ParsedAsBuilt ==
    /\ Built
    /\ parsed # None
    /\ parsed.val.input = BuiltFile
    /\ parsed.val.result.ok

\* the package from_memory returned
Package == parsed.val.result.val

\* C12, for the archives the builder itself wrote: the duplicate of the parsed
\* package, built with no modification for the version of the package, is the
\* archive the package was parsed from, byte for byte.
C12_RebuildByteIdentical ==
    (ParsedAsBuilt /\ rebuilt # None) => rebuilt.val = Ok(parsed.val.input)

\* a version 1 patch archive with an unneeded id, parsed as it was built, whose
\* duplicate does not build
C12_Witness ==
    /\ ParsedAsBuilt
    /\ built.val.version = "RPKGv1"
    /\ UnneededIds(Package) # <<>>
    /\ rebuilt = Some(Err("UnneededResourcesNotSupported"))

\* the references the parsed package holds for the rrid
ReadReferences(rrid) == IndexMapGet(Package.resources, rrid).val.header.references

\* the data of every resource of the builder is read back from the package
DataReadBack ==
    \A i \in DOMAIN builder.resources :
        ResourcePackage_read_resource(Package, builder.resources[i].key)
            = Ok(builder.resources[i].value.blob.data)

\* the unneeded ids of the builder are those of the package, in the same order
UnneededReadBack == UnneededIds(Package) = builder.unneeded_resources

\* the references of every resource come back as many, to the same rrids in the
\* same order
ReferenceIdsReadBack ==
    \A i \in DOMAIN builder.resources :
        LET given == builder.resources[i].value.references
            read_back == ReadReferences(builder.resources[i].key)
        IN /\ Len(read_back) = Len(given)
           /\ \A k \in DOMAIN given : read_back[k][1] = given[k][1]

\* C13 as it is stated: for every archive built from resources made from memory
\* and parsed as it was built, read_resource returns the data given, the
\* references come back in the same order with the flags given, and the unneeded
\* ids come back in the same order.
C13_RoundTripSameFlags ==
    ParsedAsBuilt =>
        /\ DataReadBack
        /\ UnneededReadBack
        /\ \A i \in DOMAIN builder.resources :
               ReadReferences(builder.resources[i].key)
                   = builder.resources[i].value.references

\* C13 with the flags as the code writes them: read_resource returns the data
\* given, the unneeded ids and the references come back in the same order, and
\* the flags of a reference come back converted to the variant of the layout
\* written (to_v1 with legacy references, to_v2 with new ones), which is the
\* flags given exactly when they were given in that variant.
C13_RoundTripLayoutFlags ==
    ParsedAsBuilt =>
        /\ DataReadBack
        /\ UnneededReadBack
        /\ ReferenceIdsReadBack
        /\ \A i \in DOMAIN builder.resources :
               LET given == builder.resources[i].value.references
                   read_back == ReadReferences(builder.resources[i].key)
                   layout == IF builder.use_legacy_references THEN "V1" ELSE "V2"
               IN \A k \in DOMAIN given :
                      /\ read_back[k][2] = IF builder.use_legacy_references
                                      THEN to_v1(given[k][2]) ELSE to_v2(given[k][2])
                      /\ (read_back[k][2] = given[k][2]) <=> (given[k][2].variant = layout)

\* a patch archive with legacy references, parsed as it was built, that holds a
\* compressed and scrambled resource with references, and an unneeded id
C13_Witness ==
    /\ ParsedAsBuilt
    /\ builder.use_legacy_references
    /\ builder.unneeded_resources # <<>>
    /\ \E i \in DOMAIN builder.resources :
           /\ builder.resources[i].value.references # <<>>
           /\ builder.resources[i].value.blob.compression_level.some
           /\ builder.resources[i].value.blob.should_scramble

\* the bytes the built archive stores for the i-th row of its offset table
StoredBytes(i) ==
    LET entry == BuiltFile.offset_table[i]
        first_byte == entry.data_offset - BuiltFile.data_start + 1
        size == IF entry.compressed_size = 0 THEN BuiltFile.metadata_table[i].data_size
                ELSE entry.compressed_size
    IN SubSeq(BuiltFile.data, first_byte, first_byte + size - 1)

\* the i-th resource of the builder is to be compressed and scrambled
CompressedAndScrambled(i) ==
    /\ builder.resources[i].value.blob.compression_level.some
    /\ builder.resources[i].value.blob.should_scramble

\* C14: for every resource that is both compressed and scrambled, the bytes the
\* built archive stores are the XOR of the compressed data (compress, then
\* scramble), and read_resource on the parsed archive returns what
\* LZ4-decompressing the descrambled stored bytes gives (descramble, then
\* decompress), which is the data.
C14_CompressThenScramble ==
    /\ Built =>
           \A i \in DOMAIN builder.resources :
               CompressedAndScrambled(i) =>
                   /\ StoredBytes(i) = XorBytes(Lz4Compress(builder.resources[i].value.blob.data))
                   /\ BuiltFile.offset_table[i].is_scrambled
                   /\ BuiltFile.offset_table[i].compressed_size
                          = Len(Lz4Compress(builder.resources[i].value.blob.data))
    /\ ParsedAsBuilt =>
           \A i \in DOMAIN builder.resources :
               CompressedAndScrambled(i) =>
                   LET data == builder.resources[i].value.blob.data
                       read_back == ResourcePackage_read_resource(Package, builder.resources[i].key)
                   IN /\ read_back = Lz4Decompress(XorBytes(StoredBytes(i)), Len(data))
                      /\ read_back = Ok(data)

\* an archive parsed as it was built whose second resource is compressed and
\* scrambled
C14_Witness ==
    /\ ParsedAsBuilt
    /\ Len(builder.resources) = 2
    /\ CompressedAndScrambled(2)

RECURSIVE DistinctInOrder(_)
\* the elements of a sequence in the order of their first occurrence
DistinctInOrder(s) ==
    IF s = <<>> THEN <<>>
    ELSE LET before == DistinctInOrder(SubSeq(s, 1, Len(s) - 1))
         IN IF \E i \in DOMAIN before : before[i] = s[Len(s)] THEN before
            ELSE Append(before, s[Len(s)])

\* from_memory has returned a package
Parsed == parsed # None /\ parsed.val.result.ok

\* the rrids of the rows of the offset table that was parsed, in file order
RowIds ==
    [i \in 1..parsed.val.input.header.file_count |->
        parsed.val.input.offset_table[i].runtime_resource_id]

\* the rrids with_resource was called with, in call order
AddedIds == [i \in DOMAIN added |-> added[i].rrid]

\* the builder wrote its resources in the order in which it holds them, which is
\* that of the first with_resource call of each rrid: row i of the offset table
\* and header i of the metadata table are those of the i-th resource, and its
\* payload lies behind the payloads of the resources before it
BuilderWritesInInsertionOrder ==
    Built =>
        /\ IndexMapKeys(builder.resources) = DistinctInOrder(AddedIds)
        /\ Len(BuiltFile.offset_table) = Len(builder.resources)
        /\ Len(BuiltFile.metadata_table) = Len(builder.resources)
        /\ \A i \in DOMAIN builder.resources :
               /\ BuiltFile.offset_table[i].runtime_resource_id = builder.resources[i].key
               /\ BuiltFile.metadata_table[i].data_size
                      = Len(builder.resources[i].value.blob.data)
               /\ BuiltFile.metadata_table[i].references_chunk_size
                      = ReferenceTableSize(ReferencesOf(builder.resources[i].key))
               /\ BuiltFile.offset_table[i].data_offset
                      = BuiltFile.data_start
                          + SumSeq([k \in 1..(i - 1) |-> Len(StoredBytes(k))])
               /\ StoredBytes(i) = StoredBlob(builder.resources[i].value.blob).bytes

\* C15 as it is stated: the map of a parsed archive has one entry per row of
\* the offset table, in the order of the rows, and the builder writes the offset
\* table, the metadata table and the payloads in its insertion order.
C15_OneEntryPerRow ==
    /\ Parsed => IndexMapKeys(Package.resources) = RowIds
    /\ BuilderWritesInInsertionOrder

\* C15 for every archive the parser accepts: the map has one entry per rrid of
\* the offset table, in the order of the first row of each rrid, holding the
\* last row of that rrid and its header; that is one entry per row, in row
\* order, when no two rows have the same rrid. The builder writes the offset
\* table, the metadata table and the payloads in its insertion order.
C15_OneEntryPerRowId ==
    /\ Parsed =>
           /\ IndexMapKeys(Package.resources) = DistinctInOrder(RowIds)
           /\ \A k \in DOMAIN Package.resources :
                  LET last_row == CHOOSE i \in DOMAIN RowIds :
                                      /\ RowIds[i] = Package.resources[k].key
                                      /\ \A j \in DOMAIN RowIds :
                                             RowIds[j] = RowIds[i] => j <= i
                  IN /\ Package.resources[k].value.entry
                            = parsed.val.input.offset_table[last_row]
                     /\ Package.resources[k].value.header
                            = ReadResourceHeader(parsed.val.input.metadata_table[last_row])
           /\ NoRepeat(RowIds) => IndexMapKeys(Package.resources) = RowIds
    /\ BuilderWritesInInsertionOrder

\* an archive of two rows with two rrids was parsed as it was built, after three
\* with_resource calls
C15_Witness ==
    /\ ParsedAsBuilt
    /\ Len(added) = 3
    /\ Len(RowIds) = 2
    /\ Len(Package.resources) = 2

\* an archive whose two rows have the same rrid was parsed into one entry
C15_DuplicateRowsWitness ==
    /\ Parsed
    /\ Len(RowIds) = 2
    /\ RowIds[1] = RowIds[2]
    /\ Len(Package.resources) = 1

\* C16: whatever calls were made on the builder, build fails with
\* UnneededResourcesNotSupported exactly when the builder holds an unneeded id
\* and its patch id is Base at the time of the build, and returns an archive
\* otherwise.
C16_UnneededNeedsPatch ==
    built # None =>
        /\ (built.val.result = Err("UnneededResourcesNotSupported"))
               <=> (builder.unneeded_resources # <<>> /\ builder.patch_id = Base)
        /\ built.val.result.ok
               <=> ~(builder.unneeded_resources # <<>> /\ builder.patch_id = Base)

\* a builder made for patch 1 was given an unneeded id, then the patch id Base,
\* and its build failed
C16_Witness ==
    /\ built # None
    /\ ~built.val.result.ok
    /\ builder.partition_id.part_type = "Standard"
    /\ ncalls >= 2
    /\ builder.unneeded_resources # <<>>

\* C17: from_memory on an archive whose magic is neither GKPR nor 2KPR returns
\* ParsingError.
C17_UnknownMagicIsParsingError ==
    (parsed # None /\ parsed.val.input.magic \notin {"GKPR", "2KPR"})
        => parsed.val.result = Err("ParsingError")

\* an archive with the magic XKPR was parsed into a package, whose version()
\* then panicked
C17_Witness ==
    /\ Parsed
    /\ parsed.val.input.magic = "XKPR"
    /\ Package.magic = "XKPR"
    /\ rebuilt = Some(Err("panic"))

\* the data of the last with_resource call made with the rrid
LastAdded(rrid) ==
    added[CHOOSE i \in DOMAIN added :
              /\ added[i].rrid = rrid
              /\ \A j \in DOMAIN added : added[j].rrid = rrid => j <= i].data

\* C20: after any sequence of with_resource calls the builder holds one entry
\* for each rrid added and none for the others, with the data of the last call
\* made with that rrid; the file_count of the built archive is the number of
\* distinct rrids added, and read_resource on the parsed archive returns the
\* data of the last call for each of them.
C20_LastAddedWins ==
    /\ \A rrid \in RRIDs :
           Cardinality({i \in DOMAIN builder.resources : builder.resources[i].key = rrid})
               = IF rrid \in Range(AddedIds) THEN 1 ELSE 0
    /\ \A rrid \in Range(AddedIds) :
           IndexMapGet(builder.resources, rrid).val.blob.data = LastAdded(rrid)
    /\ Built => BuiltFile.header.file_count = Cardinality(Range(AddedIds))
    /\ ParsedAsBuilt =>
           \A rrid \in Range(AddedIds) :
               ResourcePackage_read_resource(Package, rrid) = Ok(LastAdded(rrid))

\* three with_resource calls were made with two rrids, and the archive was
\* parsed as it was built
C20_Witness ==
    /\ ParsedAsBuilt
    /\ Len(added) = 3
    /\ Cardinality(Range(AddedIds)) = 2
    /\ BuiltFile.header.file_count = 2
    /\ added[1].rrid = added[3].rrid

\* ---------------------------------------------------------------------
\* Reference flags as bytes
\* ---------------------------------------------------------------------

\* the u8 values
Bytes == 0..255

\* the getter of a one-bit field of a bitfield(u8) struct
GetBit(bits, pos) == (bits \div (2 ^ pos)) % 2 = 1

\* the with_ setter of a one-bit field
WithBit(bits, pos, value) ==
    bits - (IF GetBit(bits, pos) THEN 2 ^ pos ELSE 0) + (IF value THEN 2 ^ pos ELSE 0)

\* the with_ setter of a field of several bits: the value is masked to the width
WithBits(bits, pos, width, value) ==
    LET old == (bits \div (2 ^ pos)) % (2 ^ width)
    IN bits - old * (2 ^ pos) + (value % (2 ^ width)) * (2 ^ pos)

\* ReferenceType::into_bits
ReferenceType_into_bits(type) ==
    CASE type = "INSTALL" -> 0
      [] type = "NORMAL" -> 1
      [] type = "WEAK" -> 2

\* ReferenceType::from_bits
ReferenceType_from_bits(value) ==
    CASE value = 0 -> "INSTALL"
      [] value = 1 -> "NORMAL"
      [] value = 2 -> "WEAK"
      [] OTHER -> "NORMAL"

\* ResourceReferenceFlagsV1: runtime_acquired is bit 1, weak_reference bit 2,
\* install_dependency bit 7
V1_runtime_acquired(bits) == GetBit(bits, 1)

V1_weak_reference(bits) == GetBit(bits, 2)

V1_install_dependency(bits) == GetBit(bits, 7)

\* ResourceReferenceFlagsV2: language_code is bits 0..4, runtime_acquired bit 5,
\* reference_type bits 6..7
V2_language_code(bits) == bits % 32

V2_runtime_acquired(bits) == GetBit(bits, 5)

V2_reference_type(bits) == ReferenceType_from_bits((bits \div 64) % 4)

\* ResourceReferenceFlagsV1::new(): no field has a default
V1_new == WithBits(0, 0, 8, 0)

\* ResourceReferenceFlagsV2::new(): language_code defaults to 0x1F
V2_new == WithBits(0, 0, 5, 31)

\* a ResourceReferenceFlags value as its variant and the byte it holds
FlagBits(variant, bits) == [variant |-> variant, bits |-> bits]

\* a reference_type that looks at weak_reference before install_dependency
reference_type_weak_first(flags) ==
    IF flags.variant = "V2" THEN V2_reference_type(flags.bits)
    ELSE IF V1_weak_reference(flags.bits) THEN "WEAK"
    ELSE IF V1_install_dependency(flags.bits) THEN "INSTALL"
    ELSE "NORMAL"

\* ResourceReferenceFlags::reference_type on the byte
reference_type_of_bits(flags) ==
    IF flags.variant = "V2" THEN V2_reference_type(flags.bits)
    ELSE IF V1_install_dependency(flags.bits) THEN "INSTALL"
    ELSE IF V1_weak_reference(flags.bits) THEN "WEAK"
    ELSE "NORMAL"

\* From<ResourceReferenceFlags> for ResourceReferenceFlagsV1, and to_v1
V1_from(flags) ==
    IF flags.variant = "V1" THEN flags.bits
    ELSE WithBit(
             WithBit(
                 WithBit(V1_new, 1, V2_runtime_acquired(flags.bits)),
                 2, V2_reference_type(flags.bits) = "WEAK"),
             7, V2_reference_type(flags.bits) = "INSTALL")

\* From<ResourceReferenceFlags> for ResourceReferenceFlagsV2, and to_v2
V2_from(flags) ==
    IF flags.variant = "V2" THEN flags.bits
    ELSE WithBits(
             WithBit(
                 WithBits(V2_new, 0, 5, 31),
                 5, V1_runtime_acquired(flags.bits)),
             6, 2, ReferenceType_into_bits(reference_type_of_bits(flags)))

\* the fields of a flag byte that the builder and the reader keep
FieldsOf(flags) ==
    IF flags.variant = "V1"
    THEN FlagsV1(V1_runtime_acquired(flags.bits), V1_weak_reference(flags.bits),
                 V1_install_dependency(flags.bits))
    ELSE FlagsV2(V2_language_code(flags.bits), V2_runtime_acquired(flags.bits),
                 V2_reference_type(flags.bits))

\* a flag byte of either variant is given
InitFlags ==
    /\ arg \in {FlagBits(variant, bits) : variant \in {"V1", "V2"}, bits \in Bytes}
    /\ ret = None
    /\ dir = EmptyMap
    /\ NoLayer
    /\ NoManager
    /\ NoBuilder
    /\ NoQuery

\* ResourceReferenceFlags::to_v1
ToV1 ==
    /\ ret = None
    /\ ret' = Some([op |-> "to_v1", flags |-> FlagBits("V1", V1_from(arg))])
    /\ UNCHANGED <<arg, dir, layerVars, mgrVars, buildVars, queryVars>>

\* ResourceReferenceFlags::to_v2
ToV2 ==
    /\ ret = None
    /\ ret' = Some([op |-> "to_v2", flags |-> FlagBits("V2", V2_from(arg))])
    /\ UNCHANGED <<arg, dir, layerVars, mgrVars, buildVars, queryVars>>

NextFlags == ToV1 \/ ToV2

SpecFlags == InitFlags /\ [][NextFlags]_vars

\* ---------------------------------------------------------------------
\* The claim on the conversions of reference flags
\* ---------------------------------------------------------------------

\* the bits of a V1 byte that are none of runtime_acquired, weak_reference and
\* install_dependency: bits 0, 3, 4, 5 and 6
OtherV1Bits(bits) == {pos \in {0, 3, 4, 5, 6} : GetBit(bits, pos)}

\* new to legacy: the V1 byte to_v1 makes of a V2 byte has install_dependency
\* exactly when the type is INSTALL, weak_reference exactly when it is WEAK, the
\* runtime_acquired of the V2 byte, and no other bit
NewToLegacy ==
    (ret # None /\ ret.val.op = "to_v1" /\ arg.variant = "V2") =>
        LET legacy == ret.val.flags.bits
        IN /\ V1_install_dependency(legacy) = (V2_reference_type(arg.bits) = "INSTALL")
           /\ V1_weak_reference(legacy) = (V2_reference_type(arg.bits) = "WEAK")
           /\ V1_runtime_acquired(legacy) = V2_runtime_acquired(arg.bits)
           /\ OtherV1Bits(legacy) = {}

\* legacy to new: the V2 byte to_v2 makes of a V1 byte has language code 0x1F,
\* the runtime_acquired of the V1 byte, and the type INSTALL if
\* install_dependency is set, else WEAK if weak_reference is set, else NORMAL
LegacyToNew ==
    (ret # None /\ ret.val.op = "to_v2" /\ arg.variant = "V1") =>
        LET new_bits == ret.val.flags.bits
        IN /\ V2_language_code(new_bits) = 31
           /\ V2_runtime_acquired(new_bits) = V1_runtime_acquired(arg.bits)
           /\ V2_reference_type(new_bits) =
                  (IF V1_install_dependency(arg.bits) THEN "INSTALL"
                   ELSE IF V1_weak_reference(arg.bits) THEN "WEAK"
                   ELSE "NORMAL")
           /\ new_bits = 31 + (IF V1_runtime_acquired(arg.bits) THEN 32 ELSE 0)
                            + 64 * (IF V1_install_dependency(arg.bits) THEN 0
                                    ELSE IF V1_weak_reference(arg.bits) THEN 2
                                    ELSE 1)

\* C21: for every flag byte, to_v1 of a V2 byte and to_v2 of a V1 byte are the
\* bytes the conversion contract names, and the conversions on the fields that
\* the builder uses agree with them
C21_FlagConversions ==
    /\ NewToLegacy
    /\ LegacyToNew
    /\ (ret # None /\ ret.val.op = "to_v1") =>
           FieldsOf(ret.val.flags) = to_v1(FieldsOf(arg))
    /\ (ret # None /\ ret.val.op = "to_v2") =>
           FieldsOf(ret.val.flags) = to_v2(FieldsOf(arg))

\* a V2 byte of type WEAK with a language code other than 0x1F was converted to
\* V1, or a V1 byte with the install, weak and streaming bits set to V2
C21_Witness ==
    /\ ret # None
    /\ \/ /\ ret.val.op = "to_v1"
          /\ arg = FlagBits("V2", 128 + 32 + 5)
          /\ ret.val.flags.bits = 4 + 2
       \/ /\ ret.val.op = "to_v2"
          /\ arg = FlagBits("V1", 128 + 64 + 16 + 4 + 1)
          /\ ret.val.flags.bits = 31

\* ---------------------------------------------------------------------
\* RuntimeResourceID from a ResourceID
\* ---------------------------------------------------------------------

\* a u64 is its eight bytes, the most significant first

\* 0u64
ZeroU64 == [i \in 1..8 |-> 0]

\* 0x00FFFFFFFFFFFFFF
InvalidId == [i \in 1..8 |-> IF i = 1 THEN 0 ELSE 255]

\* hash | (u64::from(byte) << shift), shift a multiple of 8 below 64: the byte
\* that holds bits shift..shift+7 is or-ed with the byte given, a | b being
\* (a + b + (a ^ b)) / 2
OrShifted(hash, byte, shift) ==
    [i \in 1..8 |->
        IF i = 8 - (shift \div 8)
        THEN (hash[i] + byte + Xor(hash[i], byte)) \div 2
        ELSE hash[i]]

RECURSIVE LessU64(_, _, _)
\* a < b on u64, compared from byte i on
LessU64(a, b, i) ==
    IF i > 8 THEN FALSE
    ELSE IF a[i] # b[i] THEN a[i] < b[i]
    ELSE LessU64(a, b, i + 1)

\* RuntimeResourceID::is_valid
is_valid_rrid(id) == LessU64(id, InvalidId, 1)

RECURSIVE HashLoop(_, _, _, _)
\* the loop of from_resource_id over i in from..to-1, digest[i] being the
\* (i+1)-th element of the sequence
HashLoop(digest, hash, from, to) ==
    IF from >= to THEN hash
    ELSE HashLoop(digest, OrShifted(hash, digest[from + 1], 8 * (7 - from)), from + 1, to)

\* a from_resource_id that takes digest bytes 0..=6
from_resource_id_first_bytes(digest) ==
    [i \in 1..8 |-> IF i = 1 THEN 0 ELSE digest[i - 1]]

\* RuntimeResourceID::from_resource_id, from the MD5 digest of the resource path
from_resource_id(digest) == HashLoop(digest, ZeroU64, 1, 8)

\* the values the bytes of a digest are drawn from
DigestBytes == {0, 1, 255}

\* Md5::digest of the resource paths: MD5 is not modelled, a digest is any 16
\* bytes; bytes 0 and 8..15 are drawn together
Digests ==
    {[i \in 1..16 |-> IF i \in 2..8 THEN mid[i - 1] ELSE rest] :
        mid \in [1..7 -> DigestBytes], rest \in {0, 255}}

\* a ResourceID is given: what is known of it is the digest of its path
InitRrid ==
    /\ arg \in Digests
    /\ ret = None
    /\ dir = EmptyMap
    /\ NoLayer
    /\ NoManager
    /\ NoBuilder
    /\ NoQuery

\* RuntimeResourceID::from(rid)
FromResourceId ==
    /\ ret = None
    /\ ret' = Some([op |-> "from", id |-> from_resource_id(arg)])
    /\ UNCHANGED <<arg, dir, layerVars, mgrVars, buildVars, queryVars>>

\* is_valid is called on the id made
IsValid ==
    /\ ret # None
    /\ ret.val.op = "from"
    /\ ret' = Some([op |-> "is_valid", id |-> ret.val.id, valid |-> is_valid_rrid(ret.val.id)])
    /\ UNCHANGED <<arg, dir, layerVars, mgrVars, buildVars, queryVars>>

NextRrid == FromResourceId \/ IsValid

SpecRrid == InitRrid /\ [][NextRrid]_vars

\* ---------------------------------------------------------------------
\* The claim on the validity of derived ids
\* ---------------------------------------------------------------------

LowerChar(c) ==
    CASE c = "P" -> "p"
      [] c = "C" -> "c"
      [] OTHER -> c

\* str::to_ascii_lowercase
to_ascii_lowercase(s) == [i \in DOMAIN s |-> LowerChar(s[i])]

\* String::retain(|c| c as u8 > 0x1F)
RetainPrintable(s) == SelectSeq(s, LAMBDA c : c # "TAB")

\* pat stands in s at position i, from 1
MatchAt(s, pat, i) ==
    /\ i + Len(pat) - 1 <= Len(s)
    /\ \A k \in 1..Len(pat) : s[i + k - 1] = pat[k]

\* str::contains
StrContains(s, pat) == \E i \in 1..Len(s) : MatchAt(s, pat, i)

RECURSIVE ReplaceFrom(_, _, _)
\* str::replace(pat, ""): the matches are found from left to right, each search
\* starting behind the match before, and what is left is not searched again
ReplaceFrom(s, pat, i) ==
    IF i > Len(s) THEN <<>>
    ELSE IF MatchAt(s, pat, i) THEN ReplaceFrom(s, pat, i + Len(pat))
    ELSE <<s[i]>> \o ReplaceFrom(s, pat, i + 1)

\* format!("{}_", CONSOLE_TAG)
PlatformTag == <<"p", "c", "_">>

\* uri.replace("pc_", "") of from_str
StripTag(uri) == ReplaceFrom(uri, PlatformTag, 1)

\* ResourceID::is_valid
is_valid_rid(uri) ==
    /\ Len(uri) > 0
    /\ uri[1] = "["
    /\ ~StrContains(uri, <<"u", "n", "k", "n", "o", "w", "n">>)
    /\ ~StrContains(uri, <<"*">>)
    /\ StrContains(uri, <<"]">>)

\* ResourceID::from_str: Ok of the uri of the ResourceID made
from_str(source) ==
    LET uri == RetainPrintable(to_ascii_lowercase(source))
    IN IF ~is_valid_rid(uri) THEN Err("InvalidFormat") ELSE Ok(StripTag(uri))

\* str::rfind('.'): Some of the position, from 1
rfind_dot(s) ==
    IF \E i \in DOMAIN s : s[i] = "."
    THEN Some(CHOOSE i \in DOMAIN s : s[i] = "." /\ \A j \in DOMAIN s : s[j] = "." => j <= i)
    ELSE None

\* ResourceID::resource_path: unwrap panics on a uri without a dot
resource_path(uri) ==
    LET dot == rfind_dot(uri)
    IN IF ~dot.some THEN Err("panic")
       ELSE Ok(SubSeq(uri, 1, dot.val) \o PlatformTag \o SubSeq(uri, dot.val + 1, Len(uri)))

\* the number of pieces a source string is put together from
MaxTokens == 3

\* the pieces of the source strings
RidTokens ==
    {<<"[">>, <<"]">>, <<".">>, <<"a">>, <<"p">>, <<"c", "_">>, <<"p", "c", "_">>,
     <<"P", "C", "_">>, <<"*">>, <<"TAB">>, <<"u", "n", "k", "n", "o", "w", "n">>}

\* the heads of the source strings: nothing, or a ResourceID up to its extension
RidHeads == {<<>>, <<"[", "a", "]", ".">>}

\* the source strings
RidSources ==
    {head \o Concat(tokens) : head \in RidHeads, tokens \in SeqsUpTo(RidTokens, MaxTokens)}

\* a source string is given
InitRid ==
    /\ arg \in RidSources
    /\ ret = None
    /\ dir = EmptyMap
    /\ NoLayer
    /\ NoManager
    /\ NoBuilder
    /\ NoQuery

\* ResourceID::from_str on the source string
FromStr ==
    /\ ret = None
    /\ ret' = Some([op |-> "from_str", rid |-> from_str(arg)])
    /\ UNCHANGED <<arg, dir, layerVars, mgrVars, buildVars, queryVars>>

\* resource_path on the ResourceID made
ResourcePath ==
    /\ ret # None
    /\ ret.val.op = "from_str"
    /\ ret.val.rid.ok
    /\ ret' = Some([op |-> "resource_path", rid |-> ret.val.rid,
                    path |-> resource_path(ret.val.rid.val)])
    /\ UNCHANGED <<arg, dir, layerVars, mgrVars, buildVars, queryVars>>

\* ResourceID::from_str on the resource path
ParsePath ==
    /\ ret # None
    /\ ret.val.op = "resource_path"
    /\ ret.val.path.ok
    /\ ret' = Some([op |-> "parse_path", rid |-> ret.val.rid, path |-> ret.val.path,
                    parsed |-> from_str(ret.val.path.val)])
    /\ UNCHANGED <<arg, dir, layerVars, mgrVars, buildVars, queryVars>>

NextRid == FromStr \/ ResourcePath \/ ParsePath

SpecRid == InitRid /\ [][NextRid]_vars

\* ---------------------------------------------------------------------
\* The claim on the round trip of a ResourceID through its resource path
\* ---------------------------------------------------------------------

\* C23: every ResourceID made from a valid string has a resource path, and the
\* resource path parses to the same ResourceID
C23_PathParsesBack ==
    /\ (ret # None /\ ret.val.op = "resource_path") => ret.val.path.ok
    /\ (ret # None /\ ret.val.op = "parse_path") => ret.val.parsed = ret.val.rid

\* the ResourceID [a].a was made from [a].PC_a, rendered as [a].pc_a and
\* parsed back
C23_Witness ==
    /\ ret # None
    /\ ret.val.op = "parse_path"
    /\ arg = <<"[", "a", "]", ".", "P", "C", "_", "a">>
    /\ ret.val.rid = Ok(<<"[", "a", "]", ".", "a">>)
    /\ ret.val.path = Ok(<<"[", "a", "]", ".", "p", "c", "_", "a">>)
    /\ ret.val.parsed = ret.val.rid

\* a uri that keeps a platform tag was parsed back without it
C23_TagLeftWitness ==
    /\ ret # None
    /\ ret.val.op = "parse_path"
    /\ arg = <<"[", "a", "]", ".", "p", "p", "c", "_", "c", "_">>
    /\ ret.val.rid = Ok(<<"[", "a", "]", ".", "p", "c", "_">>)
    /\ ret.val.parsed = Ok(<<"[", "a", "]", ".">>)

\* resource_path panicked on a ResourceID made from a valid string
C23_NoDotWitness ==
    /\ ret # None
    /\ ret.val.op = "resource_path"
    /\ arg = <<"[", "a", "]">>
    /\ ret.val.path = Err("panic")

\* ---------------------------------------------------------------------
\* XTEA text files
\* ---------------------------------------------------------------------

\* DEFAULT_ENCRYPTED_HEADER
DEFAULT_ENCRYPTED_HEADER ==
    <<34, 61, 111, 154, 179, 248, 254, 182, 97, 217, 204, 28, 98, 222, 131, 65>>

\* XTEA::encipher of one block of 8 bytes under the default key. The cipher is
\* a crate outside the repository: what the text functions rely on is that it
\* is a permutation of the blocks with decipher as its inverse, and the
\* permutation taken here moves every byte one place on and adds 1 to it
EncipherBlock(block) == [i \in 1..8 |-> (block[((i + 6) % 8) + 1] + 1) % 256]

\* XTEA::decipher of one block
DecipherBlock(block) == [i \in 1..8 |-> (block[(i % 8) + 1] + 255) % 256]

RECURSIVE CipherStream(_, _)
\* encipher_stream and decipher_stream on a buffer of whole blocks; cipher is 1
\* to encipher and 0 to decipher
CipherStream(buffer, cipher) ==
    IF Len(buffer) < 8 THEN <<>>
    ELSE (IF cipher = 1 THEN EncipherBlock(SubSeq(buffer, 1, 8))
          ELSE DecipherBlock(SubSeq(buffer, 1, 8)))
         \o CipherStream(SubSeq(buffer, 9, Len(buffer)), cipher)

RECURSIVE SumBytes(_)
SumBytes(bytes) == IF bytes = <<>> THEN 0 ELSE (bytes[1] + 3 * SumBytes(Tail(bytes))) % 65536

\* crc32fast::hash(...).to_le_bytes(): the crate is outside the repository; what
\* the text functions rely on is that equal buffers have equal checksums. The
\* four bytes taken here are made of the length and a weighted sum of the bytes
Crc32Bytes(bytes) ==
    LET sum == SumBytes(bytes)
    IN <<sum % 256, sum \div 256, Len(bytes) % 256, 255 - (sum % 256)>>

RECURSIVE trim_end_nul(_)
\* str::trim_end_matches('\0')
trim_end_nul(text) ==
    IF text # <<>> /\ text[Len(text)] = 0 THEN trim_end_nul(SubSeq(text, 1, Len(text) - 1))
    ELSE text

\* the padding of encrypt_text_file: 8 - len % 8 zeros unless that is 8
PadToBlock(buffer) ==
    LET padding == 8 - (Len(buffer) % 8)
    IN IF padding < 8 THEN buffer \o [i \in 1..padding |-> 0] ELSE buffer

\* an encrypt_text_file that does not trim the trailing zeros
encrypt_text_file_untrimmed(input_string) ==
    Ok(DEFAULT_ENCRYPTED_HEADER \o Crc32Bytes(input_string)
           \o CipherStream(PadToBlock(input_string), 1))

\* Xtea::encrypt_text_file
encrypt_text_file(input_string) ==
    LET input_buffer == trim_end_nul(input_string)
        checksum == Crc32Bytes(input_buffer)
    IN Ok(DEFAULT_ENCRYPTED_HEADER \o checksum \o CipherStream(PadToBlock(input_buffer), 1))

\* Xtea::decrypt_text_file; the bytes of the texts are ASCII, so from_utf8
\* succeeds
decrypt_text_file(input_buffer) ==
    LET payload_start == Len(DEFAULT_ENCRYPTED_HEADER) + 4
    IN IF Len(input_buffer) < payload_start THEN Err("InvalidInput")
       ELSE IF SubSeq(input_buffer, 1, Len(DEFAULT_ENCRYPTED_HEADER)) # DEFAULT_ENCRYPTED_HEADER
       THEN Err("InvalidInput")
       ELSE LET checksum == SubSeq(input_buffer, payload_start - 3, payload_start)
                payload == SubSeq(input_buffer, payload_start + 1, Len(input_buffer))
            IN IF Len(payload) % 8 # 0 THEN Err("InvalidInput")
               ELSE LET text == CipherStream(payload, 0)
                    IN IF Crc32Bytes(trim_end_nul(text)) = checksum
                       THEN Ok(text)
                       ELSE Err("InvalidInput")

\* the greatest length of a text
MaxText == 8

\* the texts: the bytes of "a" and NUL in any order
Texts == SeqsUpTo({0, 97}, MaxText)

\* a text is given
InitXtea ==
    /\ arg \in Texts
    /\ ret = None
    /\ dir = EmptyMap
    /\ NoLayer
    /\ NoManager
    /\ NoBuilder
    /\ NoQuery

\* Xtea::encrypt_text_file on the text
EncryptTextFile ==
    /\ ret = None
    /\ ret' = Some([op |-> "encrypt", encrypted |-> encrypt_text_file(arg)])
    /\ UNCHANGED <<arg, dir, layerVars, mgrVars, buildVars, queryVars>>

\* Xtea::decrypt_text_file on the encrypted bytes
DecryptTextFile ==
    /\ ret # None
    /\ ret.val.op = "encrypt"
    /\ ret.val.encrypted.ok
    /\ ret' = Some([op |-> "decrypt", encrypted |-> ret.val.encrypted,
                    decrypted |-> decrypt_text_file(ret.val.encrypted.val)])
    /\ UNCHANGED <<arg, dir, layerVars, mgrVars, buildVars, queryVars>>

NextXtea == EncryptTextFile \/ DecryptTextFile

SpecXtea == InitXtea /\ [][NextXtea]_vars

\* ---------------------------------------------------------------------
\* The claim on the round trip of a text through encryption
\* ---------------------------------------------------------------------

\* the number of NUL bytes a text ends with
TrailingNuls(text) == Len(text) - Len(trim_end_nul(text))

\* C24 as stated: decrypt_text_file(encrypt_text_file(text)) is the text
C24_DecryptReturnsText ==
    (ret # None /\ ret.val.op = "decrypt") => ret.val.decrypted = Ok(arg)

\* C24: decrypt_text_file(encrypt_text_file(text)) is the text without its
\* trailing NULs, padded with NULs to a multiple of 8 bytes; it is the text
\* exactly when the length of the text is a multiple of 8 and the text ends with
\* fewer than 8 NULs. The encrypted bytes are the header, the checksum and
\* whole blocks that are not the padded text
C24_DecryptReturnsPaddedText ==
    /\ (ret # None) =>
           /\ ret.val.encrypted.ok
           /\ SubSeq(ret.val.encrypted.val, 1, 16) = DEFAULT_ENCRYPTED_HEADER
           /\ (Len(ret.val.encrypted.val) - 20) % 8 = 0
           /\ (trim_end_nul(arg) # <<>>) =>
                  SubSeq(ret.val.encrypted.val, 21, Len(ret.val.encrypted.val))
                      # PadToBlock(trim_end_nul(arg))
    /\ (ret # None /\ ret.val.op = "decrypt") =>
           /\ ret.val.decrypted = Ok(PadToBlock(trim_end_nul(arg)))
           /\ (ret.val.decrypted = Ok(arg)) <=>
                  (Len(arg) % 8 = 0 /\ TrailingNuls(arg) < 8)

\* the text "aaaaaaa" followed by one NUL came back as it was
C24_Witness ==
    /\ ret # None
    /\ ret.val.op = "decrypt"
    /\ arg = <<97, 97, 97, 97, 97, 97, 97, 0>>
    /\ ret.val.decrypted = Ok(arg)

\* the text "aaa" came back with five NULs behind it
C24_PaddedWitness ==
    /\ ret # None
    /\ ret.val.op = "decrypt"
    /\ arg = <<97, 97, 97>>
    /\ ret.val.decrypted = Ok(<<97, 97, 97, 0, 0, 0, 0, 0>>)

\* ---------------------------------------------------------------------
\* The payload of an uncompressed file resource: io::copy into the XorWriter
\* ---------------------------------------------------------------------

\* the buffer of io::copy: the file is read into it and every read is handed to
\* the writer in one write_all. It is 8 KiB in the standard library, a multiple
\* of the length of the key, and is taken here as the length of the key
DEFAULT_BUF_SIZE == 8

\* the greatest size of the file of a resource
MaxFileSize == 9

\* the file of size n holds the bytes 1..n
FileData(n) == [i \in 1..n |-> i]

\* PackageResourceBuilder::from_file without compression
FileResources ==
    {[data |-> FileData(n), should_scramble |-> s] : n \in 0..MaxFileSize, s \in BOOLEAN}

\* a write on the data_writer of the payload loop: the XorWriter if the resource
\* is scrambled, the archive writer itself if not
DataWriterWrite(should_scramble, buf) == IF should_scramble THEN XorBytes(buf) ELSE buf

\* the payload loop of build_internal opens the file of a File blob
InitCopy ==
    /\ arg \in FileResources
    /\ ret = Some([op |-> "copy", pos |-> 0, stored |-> <<>>, writes |-> <<>>])
    /\ dir = EmptyMap
    /\ NoLayer
    /\ NoManager
    /\ NoBuilder
    /\ NoQuery

\* one round of io::copy: File::read fills the buffer or returns fewer bytes
\* than it has room for, and write_all hands them to the data_writer, whose
\* write takes them all in one call
CopyRound ==
    /\ ret.val.op = "copy"
    /\ ret.val.pos < Len(arg.data)
    /\ \E n \in 1..DEFAULT_BUF_SIZE :
          /\ ret.val.pos + n <= Len(arg.data)
          /\ LET buf == SubSeq(arg.data, ret.val.pos + 1, ret.val.pos + n)
             IN ret' = Some([op |-> "copy", pos |-> ret.val.pos + n,
                             stored |-> ret.val.stored
                                            \o DataWriterWrite(arg.should_scramble, buf),
                             writes |-> Append(ret.val.writes, n)])
    /\ UNCHANGED <<arg, dir, layerVars, mgrVars, buildVars, queryVars>>

\* File::read returns 0 at the end of the file and io::copy returns; the
\* resource is then read from the archive, read_resource descrambling the stored
\* bytes of a scrambled resource with an index that runs over the whole buffer
CopyEndAndRead ==
    /\ ret.val.op = "copy"
    /\ ret.val.pos = Len(arg.data)
    /\ ret' = Some([op |-> "read_resource", pos |-> ret.val.pos, stored |-> ret.val.stored,
                    writes |-> ret.val.writes,
                    data |-> IF arg.should_scramble THEN XorBytes(ret.val.stored)
                             ELSE ret.val.stored])
    /\ UNCHANGED <<arg, dir, layerVars, mgrVars, buildVars, queryVars>>

NextCopy == CopyRound \/ CopyEndAndRead

SpecCopy == InitCopy /\ [][NextCopy]_vars

\* ---------------------------------------------------------------------
\* The claim on the index of the scramble key
\* ---------------------------------------------------------------------

\* C25: whatever write calls the payload of a scrambled uncompressed file
\* resource is split into, byte i of the stored payload is byte i of the file
\* xored with key[i mod 8], and the resource reads back unchanged
C25_IndexRunsAcrossWrites ==
    (ret.val.op = "read_resource" /\ arg.should_scramble) =>
        /\ ret.val.stored = XorBytes(arg.data)
        /\ ret.val.data = arg.data

\* a scrambled file of 9 bytes was copied in a write of 8 bytes and a write of
\* 1 byte and read back unchanged
C25_Witness ==
    /\ ret.val.op = "read_resource"
    /\ arg.should_scramble
    /\ Len(arg.data) = 9
    /\ ret.val.writes = <<8, 1>>
    /\ ret.val.stored = XorBytes(arg.data)
    /\ ret.val.data = arg.data

\* a scrambled file of 4 bytes was copied in writes of 3 bytes and 1 byte, and
\* its last byte was stored xored with key[0] and read back changed
C25_ShortReadWitness ==
    /\ ret.val.op = "read_resource"
    /\ arg.should_scramble
    /\ Len(arg.data) = 4
    /\ ret.val.writes = <<3, 1>>
    /\ ret.val.stored[4] = Xor(arg.data[4], str_xor[1])
    /\ ret.val.data # arg.data

\* ---------------------------------------------------------------------
\* PackageBuilder::build: building into a file
\* ---------------------------------------------------------------------

\* PartitionId::to_filename
to_filename(id, patch_index) == filename([id |-> id], patch_index)

\* a file File::create has made or truncated and nothing has written to
EmptyFile == [written |-> "nothing"]

\* a file that was at the output path before the build
OldFile == [written |-> "old"]

\* the file that holds a built archive
ArchiveFile(archive) == [written |-> "archive", archive |-> archive]

\* the output paths: a file path "out.rpkg" in the directory, the directory
\* itself, and a file path in a directory that does not exist
OutputPaths ==
    {[is_dir |-> FALSE, parent_exists |-> TRUE],
     [is_dir |-> TRUE, parent_exists |-> TRUE],
     [is_dir |-> FALSE, parent_exists |-> FALSE]}

\* the name "out.rpkg"
OutName == FileName(<<"o", "u", "t">>, None)

\* output_file of build
output_file(pkg_builder, output_path) ==
    IF output_path.is_dir THEN to_filename(pkg_builder.partition_id, pkg_builder.patch_id)
    ELSE OutName

\* the partition indices and patch ids of the builders: on both sides of u8::MAX
BuildIndices == {0, 255, 256, 300}

BuildPatchIds == {Base, Patch(1), Patch(255), Patch(256), Patch(511)}

\* File::create(output_file) followed by build_internal on the file: what
\* build returns and the directory it leaves. build_internal returns its
\* validation error before it writes anything
build(pkg_builder, package_version, output_path, directory) ==
    IF ~output_path.parent_exists
    THEN [result |-> Err("IoError"), dir |-> directory]
    ELSE LET name == output_file(pkg_builder, output_path)
             created == [f \in DOMAIN directory \cup {name} |->
                            IF f = name THEN EmptyFile ELSE directory[f]]
             r == build_internal(pkg_builder, package_version)
         IN [result |-> r,
             dir |-> IF r.ok THEN [created EXCEPT ![name] = ArchiveFile(r.val)]
                     ELSE created]

\* PackageBuilder::new_with_patch_id, an output path, and a directory in which
\* the output file is absent or holds an old file
InitBuildFile ==
    /\ builder \in {new_with_patch_id(PartitionId(part_type, "", i), p) :
                       part_type \in {"Standard", "Addon"}, i \in BuildIndices,
                       p \in BuildPatchIds}
    /\ arg \in OutputPaths
    /\ dir \in {EmptyMap,
                [f \in {output_file(builder, arg)} |-> OldFile]}
    /\ (~arg.parent_exists) => dir = EmptyMap
    /\ ret = None
    /\ added = <<>>
    /\ ncalls = 0
    /\ built = None
    /\ parsed = None
    /\ rebuilt = None
    /\ NoLayer
    /\ NoManager
    /\ NoQuery

\* with_unneeded_resource is called
CallWithUnneeded ==
    /\ built = None
    /\ builder.unneeded_resources = <<>>
    /\ builder' = with_unneeded_resource(builder, HeldRRID)
    /\ UNCHANGED <<added, ncalls, built, parsed, rebuilt, dir, layerVars, mgrVars, queryVars, pureVars>>

\* build is called with the output path: the builder is consumed
BuildToPath ==
    /\ built = None
    /\ \E package_version \in PackageVersions :
          LET r == build(builder, package_version, arg, dir)
          IN /\ built' = Some([version |-> package_version, result |-> r.result])
             /\ dir' = r.dir
    /\ UNCHANGED <<builder, added, ncalls, parsed, rebuilt, layerVars, mgrVars, queryVars, pureVars>>

NextBuildFile == CallWithUnneeded \/ BuildToPath

SpecBuildFile == InitBuildFile /\ [][NextBuildFile]_vars

\* ---------------------------------------------------------------------
\* The claims on building into a file
\* ---------------------------------------------------------------------

\* the archive a build has written to the output file
WrittenArchive == dir[output_file(builder, arg)].archive

\* C26: a v2 build with a partition index or a patch index above 255 is
\* rejected with InvalidPartitionIdIndex or InvalidPatchId, and the metadata
\* block of a built v2 archive carries the index and the patch index asked for
C26_LargeIdsRejected ==
    (built # None /\ built.val.version = "RPKGv2" /\ arg.parent_exists) =>
        /\ builder.partition_id.index > 255 =>
               built.val.result = Err("InvalidPartitionIdIndex")
        /\ (builder.partition_id.index <= 255 /\ builder.patch_id.n > 255) =>
               built.val.result = Err("InvalidPatchId")
        /\ built.val.result.ok =>
               /\ WrittenArchive.metadata.val.chunk_id = builder.partition_id.index
               /\ WrittenArchive.metadata.val.patch_id = builder.patch_id.n

\* a v2 archive was built for partition index 300 and patch 511 and carries
\* chunk_id 44 and patch_id 255
C26_Witness ==
    /\ built # None
    /\ built.val.version = "RPKGv2"
    /\ built.val.result.ok
    /\ builder.partition_id.index = 300
    /\ builder.patch_id = Patch(511)
    /\ WrittenArchive.metadata.val.chunk_id = 44
    /\ WrittenArchive.metadata.val.patch_id = 255

\* C30: a build that returns an error leaves the directory as it was: no file is
\* created at the output path and a file that was there keeps its contents
C30_FailedBuildLeavesPath ==
    [][(built' # None /\ ~built'.val.result.ok) => dir' = dir]_vars

\* a build failed with UnneededResourcesNotSupported and the old file at the
\* output path is empty
C30_Witness ==
    /\ built # None
    /\ built.val.result = Err("UnneededResourcesNotSupported")
    /\ ~arg.is_dir
    /\ dir = [f \in {OutName} |-> EmptyFile]

\* a build failed in File::create and the directory is as it was
C30_CreateFailedWitness ==
    /\ built # None
    /\ built.val.result = Err("IoError")
    /\ dir = EmptyMap

\* ---------------------------------------------------------------------
\* A manager on which several mount calls are made
\* ---------------------------------------------------------------------

\* the manifests of the runs of several mount calls: the middle dialect, at
\* most two partition lines
RemountSources == {src \in ManifestSources : src.kind = "HM2" /\ Len(src.data) <= 2}

\* what the directory holds for one partition in the runs of several calls
RemountTags == {"absent", "corrupt", "holds"}

\* PartitionManager::new
InitRemount ==
    /\ \E src \in RemountSources :
          /\ read(src).ok
          /\ partition_infos = read(src).val
    /\ dir \in MgrDirs(partition_infos, RemountTags)
    /\ partitions = <<>>
    /\ last_call = [op |-> "none", result |-> "none"]
    /\ mgr_calls = <<>>
    /\ walk = NoWalk
    /\ NoLayer
    /\ NoBuilder
    /\ NoQuery
    /\ NoCall

\* a run makes mount calls until more partitions are mounted than the manifest
\* names
MountPartitionsAgain == Len(partitions) <= Len(partition_infos) /\ MountPartitions

MountPartitionAgain == Len(partitions) <= Len(partition_infos) /\ MountPartition

NextRemount == MountPartitionsAgain \/ MountPartitionAgain

SpecRemount == InitRemount /\ [][NextRemount]_vars

\* ---------------------------------------------------------------------
\* The claims on several mount calls
\* ---------------------------------------------------------------------

\* C27: no two entries of partitions have the same partition id
C27_MountedIdsDistinct ==
    \A i, j \in DOMAIN partitions :
        i # j => partitions[i].info.id # partitions[j].info.id

\* two partitions of different ids were mounted by two mount_partition calls
C27_Witness ==
    /\ Len(partitions) = 2
    /\ partitions[1].info.id # partitions[2].info.id
    /\ last_call.op = "mount_partition"
    /\ Len(last_call.before) = 1

\* mount_partitions was called on a manager that had mounted its partitions: the
\* list holds every partition twice
C27_MountedTwiceWitness ==
    /\ last_call.op = "mount_partitions"
    /\ last_call.result.ok
    /\ Len(last_call.before) = 2
    /\ partitions = last_call.before \o last_call.before

\* C28: a mount_partitions call that returns an error leaves partitions as it
\* was before the call
C28_FailedMountAddsNothing ==
    [][(last_call'.op = "mount_partitions" /\ ~last_call'.result.ok)
           => partitions' = partitions]_vars

\* mount_partitions failed on the second partition of a manager whose first
\* partition can be mounted and was mounted before by mount_partition
C28_Witness ==
    /\ last_call.op = "mount_partitions"
    /\ ~last_call.result.ok
    /\ Len(partition_infos) = 2
    /\ last_call.result = Err(PartitionError(partition_infos[2].id))
    /\ Len(partitions) = 1
    /\ partitions[1].info = partition_infos[1]
    /\ partitions = last_call.before

\* ---------------------------------------------------------------------
\* The manifest parsers on their own
\* ---------------------------------------------------------------------

\* the lines of the oldest dialect with two languages
H2016LangLines == H2016Lines \cup {[kind |-> "langdlc", lang |-> "fr"]}

\* the manifests given to the parsers: those of the three dialects, and those of
\* the oldest dialect with two languages
ParserSources ==
    ManifestSources
    \cup {[kind |-> "HM2016", data |-> m] : m \in SeqsUpTo(H2016LangLines, MaxLines)}

\* a manifest is given
InitParser ==
    /\ arg \in ParserSources
    /\ ret = None
    /\ dir = EmptyMap
    /\ NoLayer
    /\ NoManager
    /\ NoBuilder
    /\ NoQuery

\* PackageDefinitionSource::read: the parser of the dialect is run
ReadSource ==
    /\ ret = None
    /\ ret' = Some(read(arg))
    /\ UNCHANGED <<arg, dir, layerVars, mgrVars, buildVars, queryVars>>

NextParser == ReadSource

SpecParser == InitParser /\ [][NextParser]_vars

\* ---------------------------------------------------------------------
\* The claim on the partition ids of a parsed manifest
\* ---------------------------------------------------------------------

\* the number of #langdlc lines of a manifest
LangLines(lines) == Cardinality({i \in DOMAIN lines : lines[i].kind = "langdlc"})

\* no two partitions of the list have the same id
IdsDistinct(infos) ==
    \A i, j \in DOMAIN infos : i # j => infos[i].id # infos[j].id

\* C29: the partition ids of the list a manifest parser returns are pairwise
\* distinct
C29_ParsedIdsDistinct ==
    (ret # None /\ ret.val.ok) => IdsDistinct(ret.val.val)

\* a manifest of the oldest dialect with a chunk line, a dlc line and one
\* #langdlc line was parsed into four partitions of four ids
C29_Witness ==
    /\ ret # None
    /\ ret.val.ok
    /\ arg.kind = "HM2016"
    /\ Len(arg.data) = 3
    /\ arg.data[3].kind = "langdlc"
    /\ Len(ret.val.val) = 4
    /\ IdsDistinct(ret.val.val)

\* a manifest whose #langdlc line stands twice was parsed into two language
\* partitions of the same id
C29_RepeatedLangWitness ==
    /\ ret # None
    /\ ret.val.ok
    /\ arg.kind = "HM2016"
    /\ Len(arg.data) = 3
    /\ LangLines(arg.data) = 2
    /\ arg.data[2] = arg.data[3]
    /\ ret.val.val[2].id = ret.val.val[3].id

\* a manifest with a dlc line and the #langdlc lines of two languages was parsed
\* into two language partitions of the same id
C29_TwoLangsWitness ==
    /\ ret # None
    /\ ret.val.ok
    /\ arg.kind = "HM2016"
    /\ Len(arg.data) = 3
    /\ arg.data[1] = [kind |-> "partition", word |-> "dlc", patchlevel |-> 1]
    /\ LangLines(arg.data) = 2
    /\ arg.data[2] # arg.data[3]
    /\ ~IdsDistinct(ret.val.val)

====
